---- MODULE Spec2Model ----
(***************************************************************************)
(* A model of the N interpreter (python/n.py): the scoped environment, the *)
(* type checker, the tree-walking evaluator and the driver that runs the   *)
(* check pass and then the evaluator over one parsed program.              *)
(*                                                                         *)
(* Syntax nodes are records with the fields of lark's Tree and Token; a    *)
(* node is addressed by its path (child indices from the root), which is   *)
(* how a diagnostic or a log entry names "the same syntax node".           *)
(* Scope, Function and the diagnostic lists are Python objects held by     *)
(* reference: they live in the heaps scopes, funcs and sinks, and are      *)
(* named by their index.                                                   *)
(***************************************************************************)
EXTENDS Integers, Sequences, FiniteSets

VARIABLES
    prog,           \* the parsed program: a "start" tree
    pc,             \* driver position: start, type_check, parse_tree, eval, done
    idx,            \* the top-level command the running pass is at
    top_scope,      \* the top scope of the running pass
    scopes,         \* heap of Scope objects
    funcs,          \* heap of Function objects
    sinks,          \* heap of diagnostic lists (errors / warnings lists)
    out,            \* what print commands wrote: a sequence of values
    trace,          \* log of the evaluator: commands run, tokens evaluated
    raised,         \* the exception that ended the run ("" when none)
    error_count,    \* type_check's first result
    warning_count   \* type_check's second result

vars == <<prog, pc, idx, top_scope, scopes, funcs, sinks, out, trace, raised,
          error_count, warning_count>>

(***************************************************************************)
(* Syntax nodes                                                            *)
(***************************************************************************)
\* A lark Token: its type tag, its text as a word (value) and, for NUMBER
\* and STRING literals, its text as characters (text).
Token(type, value, text) ==
    [data |-> "token", type |-> type, value |-> value, text |-> text,
     children |-> <<>>]

\* A lark Tree: a label and its children.
Tree(data, children) ==
    [data |-> data, type |-> "", value |-> "", text |-> <<>>,
     children |-> children]

IsToken(node) == node.data = "token"

\* The placeholder for Python's None where a node is optional.
NoNode == [data |-> "None", type |-> "", value |-> "", text |-> <<>>,
           children |-> <<>>]

(***************************************************************************)
(* Types: a primitive name (a Python str) or a function arrow (a tuple).   *)
(* TNone is the checker's "unknown".                                       *)
(***************************************************************************)
Prim(name) == [fn |-> FALSE, ts |-> <<name>>]
Arrow(ts) == [fn |-> TRUE, ts |-> ts]
TNone == [fn |-> FALSE, ts |-> <<>>]

\* The characters of a type name, for Python's unpacking of a str.
CharsOf(name) ==
    IF name = "int" THEN <<"i", "n", "t">>
    ELSE IF name = "float" THEN <<"f", "l", "o", "a", "t">>
    ELSE IF name = "str" THEN <<"s", "t", "r">>
    ELSE IF name = "bool" THEN <<"b", "o", "o", "l">>
    ELSE <<name>>

(***************************************************************************)
(* Runtime values: host type tag t, a rational n/d for numbers (bool is    *)
(* 0/1), characters q for str, the Function's index n for a function.      *)
(***************************************************************************)
IntV(i) == [t |-> "int", n |-> i, d |-> 1, q |-> <<>>]
BoolV(b) == [t |-> "bool", n |-> IF b THEN 1 ELSE 0, d |-> 1, q |-> <<>>]
StrV(q) == [t |-> "str", n |-> 0, d |-> 1, q |-> q]
FunV(id) == [t |-> "function", n |-> id, d |-> 1, q |-> <<>>]
NoneV == [t |-> "NoneType", n |-> 0, d |-> 1, q |-> <<>>]
ComplexV == [t |-> "complex", n |-> 0, d |-> 1, q |-> <<>>]

RECURSIVE Gcd(_, _)
Gcd(a, b) == IF b = 0 THEN a ELSE Gcd(b, a % b)

\* A float, as the rational n/d in lowest terms with d > 0.
FloatV(n, d) ==
    LET g == Gcd(IF n < 0 THEN -n ELSE n, IF d < 0 THEN -d ELSE d)
        s == IF d < 0 THEN -1 ELSE 1
    IN [t |-> "float", n |-> (s * n) \div g, d |-> (s * d) \div g, q |-> <<>>]

Variable(type, value) == [type |-> type, value |-> value]

\* The checker's placeholder values "whatever" and "anything".
Whatever == StrV(<<"w", "h", "a", "t", "e", "v", "e", "r">>)
Anything == StrV(<<"a", "n", "y", "t", "h", "i", "n", "g">>)

(***************************************************************************)
(* The heap: h is the record of every object the two passes touch.         *)
(***************************************************************************)
\* Scope.__init__
Scope(parent, parent_function, errors, warnings) ==
    [parent |-> parent, parent_function |-> parent_function,
     imports |-> <<>>, variables |-> <<>>,
     errors |-> errors, warnings |-> warnings]

\* Scope.new_scope: the child is the last scope of the returned heap.
new_scope(h, self, parent_function) ==
    [h EXCEPT !.scopes = Append(@,
        Scope(self,
              IF parent_function # 0 THEN parent_function
              ELSE h.scopes[self].parent_function,
              h.scopes[self].errors, h.scopes[self].warnings))]

\* A dict as a sequence of <<key, value>> kept in insertion order; a
\* repeated key overwrites in place, as dict.__setitem__ does.
RECURSIVE DictIndex(_, _, _)
DictIndex(dict, key, i) ==
    IF i > Len(dict) THEN 0
    ELSE IF dict[i].key = key THEN i ELSE DictIndex(dict, key, i + 1)

DictHas(dict, key) == DictIndex(dict, key, 1) # 0
DictGet(dict, key) == dict[DictIndex(dict, key, 1)].val
DictSet(dict, key, val) ==
    IF DictHas(dict, key)
    THEN [dict EXCEPT ![DictIndex(dict, key, 1)].val = val]
    ELSE Append(dict, [key |-> key, val |-> val])

SetVariable(h, sc, name, variable) ==
    [h EXCEPT !.scopes[sc].variables = DictSet(@, name, variable)]

\* A faulty variant of the lookup that asks the parent first: the
\* outermost binding of a name wins.
RECURSIVE get_variable_outermost(_, _, _)
get_variable_outermost(h, sc, name) ==
    IF h.scopes[sc].parent # 0
          /\ get_variable_outermost(h, h.scopes[sc].parent, name).found
    THEN get_variable_outermost(h, h.scopes[sc].parent, name)
    ELSE IF DictHas(h.scopes[sc].variables, name)
    THEN [found |-> TRUE, var |-> DictGet(h.scopes[sc].variables, name)]
    ELSE [found |-> FALSE, var |-> Variable(TNone, NoneV)]

\* Scope.get_variable: 0-ary result [found, var]; found = FALSE is None
\* (err=False) or NameError (err=True), which the caller decides.
RECURSIVE get_variable(_, _, _)
get_variable(h, sc, name) ==
    IF DictHas(h.scopes[sc].variables, name)
    THEN [found |-> TRUE, var |-> DictGet(h.scopes[sc].variables, name)]
    ELSE IF h.scopes[sc].parent # 0
         THEN get_variable(h, h.scopes[sc].parent, name)
         ELSE [found |-> FALSE, var |-> Variable(TNone, NoneV)]

\* Scope.get_parent_function: 0 is None.
RECURSIVE get_parent_function(_, _)
get_parent_function(h, sc) ==
    IF h.scopes[sc].parent_function = 0
    THEN IF h.scopes[sc].parent # 0
         THEN get_parent_function(h, h.scopes[sc].parent)
         ELSE 0
    ELSE h.scopes[sc].parent_function

\* Scope.find_import: scans this scope's own list only.
find_import(h, sc, name) ==
    \E i \in 1..Len(h.scopes[sc].imports) : h.scopes[sc].imports[i] = name

\* TypeCheckError(node, message): the rule stands for the message.
TypeCheckError(node, rule) == [node |-> node, rule |-> rule]

AppendError(h, sc, node, rule) ==
    [h EXCEPT !.sinks[h.scopes[sc].errors] = Append(@, TypeCheckError(node, rule))]

AppendWarning(h, sc, node, rule) ==
    [h EXCEPT !.sinks[h.scopes[sc].warnings] = Append(@, TypeCheckError(node, rule))]

\* Function.__init__: the arrow type and the stored fields.
Function(scope, arguments, returntype, codeblock, cbpath, defaultreturn, drpath) ==
    [scope |-> scope,
     type |-> Arrow([i \in 1..Len(arguments) |-> arguments[i].type]
                    \o <<returntype>>),
     arguments |-> arguments, returntype |-> returntype,
     codeblock |-> codeblock, cbpath |-> cbpath,
     defaultreturn |-> defaultreturn, drpath |-> drpath,
     native |-> ""]

(***************************************************************************)
(* The operator tables                                                     *)
(***************************************************************************)
binary_operation_types ==
    [OR |-> {<<"bool", "bool", "bool">>, <<"int", "int", "int">>},
     AND |-> {<<"bool", "bool", "bool">>, <<"int", "int", "int">>},
     ADD |-> {<<"int", "int", "int">>, <<"float", "float", "float">>,
              <<"str", "str", "str">>},
     SUBTRACT |-> {<<"int", "int", "int">>, <<"float", "float", "float">>},
     MULTIPLY |-> {<<"int", "int", "int">>, <<"float", "float", "float">>},
     DIVIDE |-> {<<"int", "int", "int">>, <<"float", "float", "float">>},
     ROUNDDIV |-> {<<"int", "int", "int">>, <<"float", "float", "float">>},
     MODULO |-> {<<"int", "int", "int">>, <<"float", "float", "float">>},
     EXPONENT |-> {<<"int", "int", "float">>, <<"float", "float", "float">>}]

unary_operation_types ==
    [NEGATE |-> {<<"int", "int">>, <<"float", "float">>},
     NOT |-> {<<"bool", "bool">>, <<"int", "int">>}]

comparable_types == {Prim("int"), Prim("float")}

\* iterable_types.get(t): TNone when t is not a key.
iterable_types(t) == IF t = Prim("int") THEN Prim("int") ELSE TNone

\* types.get((left_type, right_type)) on a row set of the binary table.
BinaryGet(rows, left_type, right_type) ==
    LET hit == {r \in rows : Prim(r[1]) = left_type /\ Prim(r[2]) = right_type}
    IN IF hit = {} THEN TNone ELSE Prim((CHOOSE r \in hit : TRUE)[3])

\* types.get(value_type) on a row set of the unary table.
UnaryGet(rows, value_type) ==
    LET hit == {r \in rows : Prim(r[1]) = value_type}
    IN IF hit = {} THEN TNone ELSE Prim((CHOOSE r \in hit : TRUE)[2])

(***************************************************************************)
(* The type checker: expressions.  Every operator returns the heap after   *)
(* the call and the type (TNone for None).                                 *)
(***************************************************************************)
get_value_type(h, sc, value, path) ==
    IF value.type = "NUMBER" THEN [h |-> h, ty |-> Prim("int")]
    ELSE IF value.type = "STRING" THEN [h |-> h, ty |-> Prim("str")]
    ELSE IF value.type = "BOOLEAN" THEN [h |-> h, ty |-> Prim("bool")]
    ELSE IF value.type = "NAME"
    THEN IF ~get_variable(h, sc, value.value).found
         THEN [h |-> AppendError(h, sc, path, "undefined"), ty |-> TNone]
         ELSE [h |-> h, ty |-> get_variable(h, sc, value.value).var.type]
    ELSE [h |-> AppendError(h, sc, path, "internal_value"), ty |-> TNone]

\* A result of type_check_expr.
Typed(h, ty) == [h |-> h, ty |-> ty]

\* if condition: self.errors.append(TypeCheckError(node, ...))
ErrorIf(condition, h, sc, node, rule) ==
    IF condition THEN AppendError(h, sc, node, rule) ELSE h

RECURSIVE type_check_expr(_, _, _, _)
RECURSIVE check_arguments(_, _, _, _, _, _)

\* The body of the zip loop of a call: check_type against arg_type, the
\* mismatch reported on the call expression.  c is the checked argument.
check_argument(c, sc, path, arg_type) ==
    ErrorIf(c.ty # TNone /\ c.ty # Prim(arg_type), c.h, sc, path, "argument_type")

\* for n, (argument, arg_type) in enumerate(zip(arguments, arg_types))
check_arguments(h, sc, expr, path, arg_types, k) ==
    IF k > Len(expr.children[1].children) - 1 \/ k > Len(arg_types) THEN h
    ELSE check_arguments(
            check_argument(
                type_check_expr(h, sc, expr.children[1].children[k + 1],
                                path \o <<1, k + 1>>),
                sc, path, arg_types[k]),
            sc, expr, path, arg_types, k + 1)

\* The two branch types of an if-else expression, once all three parts
\* are checked and the condition's diagnostic is in h.
ifelse_expr_type(h, sc, path, if_true_type, if_false_type) ==
    IF if_true_type = TNone \/ if_false_type = TNone THEN Typed(h, TNone)
    ELSE IF if_true_type # if_false_type
    THEN Typed(AppendError(h, sc, path, "branch_mismatch"), TNone)
    ELSE Typed(h, if_true_type)

\* b is the checked false branch.
check_ifelse_expr_3(b, sc, path, cond_type, if_true_type) ==
    ifelse_expr_type(
        ErrorIf(cond_type # TNone /\ cond_type # Prim("bool"), b.h, sc,
                path \o <<1>>, "condition_not_bool"),
        sc, path, if_true_type, b.ty)

\* a is the checked true branch.
check_ifelse_expr_2(a, sc, expr, path, cond_type) ==
    check_ifelse_expr_3(type_check_expr(a.h, sc, expr.children[3], path \o <<3>>),
                        sc, path, cond_type, a.ty)

\* c is the checked condition.
check_ifelse_expr_1(c, sc, expr, path) ==
    check_ifelse_expr_2(type_check_expr(c.h, sc, expr.children[2], path \o <<2>>),
                        sc, expr, path, c.ty)

\* *arg_types, return_type = func_type: a tuple gives its items, a str
\* its characters.
Unpack(func_type) ==
    IF func_type.fn THEN func_type.ts ELSE CharsOf(func_type.ts[1])

\* h has the arguments checked: the arity diagnostic and the result.
check_call_arity(h, sc, expr, path, ts) ==
    Typed(ErrorIf(Len(expr.children[1].children) - 1 # Len(ts) - 1, h, sc, path,
                  "arity"),
          Prim(ts[Len(ts)]))

\* f is the checked callee.
check_function_callback_1(f, sc, expr, path) ==
    IF f.ty = TNone THEN Typed(f.h, TNone)
    ELSE check_call_arity(
            check_arguments(f.h, sc, expr, path,
                            SubSeq(Unpack(f.ty), 1, Len(Unpack(f.ty)) - 1), 1),
            sc, expr, path, Unpack(f.ty))

\* v is the checked operand, types the operator's row of the table.
check_unary_1(v, sc, path, types) ==
    IF v.ty = TNone THEN Typed(v.h, TNone)
    ELSE IF UnaryGet(types, v.ty) = TNone
    THEN Typed(AppendError(v.h, sc, path, "operator_misuse"), TNone)
    ELSE Typed(v.h, UnaryGet(types, v.ty))

\* A faulty variant that looks the operand types up before asking whether
\* they are known: an unknown operand is reported as a misuse.
check_binary_2_unknown_misused(r, sc, path, left_type, types) ==
    IF BinaryGet(types, left_type, r.ty) = TNone
    THEN Typed(AppendError(r.h, sc, path, "operator_misuse"), TNone)
    ELSE Typed(r.h, BinaryGet(types, left_type, r.ty))

\* r is the checked right operand, types the operator's row of the table.
check_binary_2(r, sc, path, left_type, types) ==
    IF left_type = TNone \/ r.ty = TNone THEN Typed(r.h, TNone)
    ELSE IF BinaryGet(types, left_type, r.ty) = TNone
    THEN Typed(AppendError(r.h, sc, path, "operator_misuse"), TNone)
    ELSE Typed(r.h, BinaryGet(types, left_type, r.ty))

\* l is the checked left operand.
check_binary_1(l, sc, expr, path) ==
    check_binary_2(type_check_expr(l.h, sc, expr.children[3], path \o <<3>>),
                   sc, path, l.ty,
                   binary_operation_types[expr.children[2].type])

\* The scratch scope of a comparison chain: new_scope(), then fresh
\* errors and warnings lists of its own.  h is the heap after new_scope.
OwnSinks(h) ==
    [h EXCEPT !.sinks = @ \o <<<<>>, <<>>>>,
              !.scopes[Len(h.scopes)].errors = Len(h.sinks) + 1,
              !.scopes[Len(h.scopes)].warnings = Len(h.sinks) + 2]

\* r is the checked right side: the two diagnostics of a link, on the
\* comparison token, and the result, which is bool whatever happened.
check_compare_2(r, sc, expr, path, left_type) ==
    Typed(ErrorIf(/\ left_type # TNone
                  /\ expr.children[2].type
                        \notin {"EQUALS", "NEQUALS", "NEQUALS_QUIRKY"}
                  /\ left_type \notin comparable_types,
                  ErrorIf(left_type # TNone /\ r.ty # TNone
                            /\ left_type # r.ty,
                          r.h, sc, path \o <<2>>, "compare_mismatch"),
                  sc, path \o <<2>>, "not_comparable"),
          Prim("bool"))

\* l is the checked left side; the right side is checked in self again.
check_compare_1(l, sc, expr, path) ==
    check_compare_2(type_check_expr(l.h, sc, expr.children[3], path \o <<3>>),
                    sc, expr, path, l.ty)

\* The left link's right operand, checked in the scratch scope; h is the
\* heap with that scope last.
check_chain_operand(h, expr, path) ==
    type_check_expr(h, Len(h.scopes), expr.children[1].children[3], path \o <<1, 3>>)

check_compare(h, sc, expr, path) ==
    IF expr.children[1].data = "compare_expression"
    THEN check_compare_1(
            check_chain_operand(
                OwnSinks(new_scope(
                    type_check_expr(h, sc, expr.children[1], path \o <<1>>).h,
                    sc, 0)),
                expr, path),
            sc, expr, path)
    ELSE check_compare_1(type_check_expr(h, sc, expr.children[1], path \o <<1>>),
                         sc, expr, path)

type_check_expr(h, sc, expr, path) ==
    IF IsToken(expr) THEN get_value_type(h, sc, expr, path)
    ELSE IF expr.data = "ifelse_expr"
    THEN check_ifelse_expr_1(
            type_check_expr(h, sc, expr.children[1], path \o <<1>>),
            sc, expr, path)
    ELSE IF expr.data = "function_callback"
    THEN check_function_callback_1(
            type_check_expr(h, sc, expr.children[1].children[1],
                            path \o <<1, 1>>),
            sc, expr, path)
    ELSE IF expr.data = "imported_command"
    THEN Typed(AppendWarning(h, sc, path, "imported_command"), TNone)
    ELSE IF expr.data = "value"
    THEN IF IsToken(expr.children[1])
         THEN get_value_type(h, sc, expr.children[1], path \o <<1>>)
         ELSE type_check_expr(h, sc, expr.children[1], path \o <<1>>)
    ELSE IF /\ Len(expr.children) = 2
            /\ IsToken(expr.children[1])
            /\ expr.children[1].type \in DOMAIN unary_operation_types
    THEN check_unary_1(type_check_expr(h, sc, expr.children[2], path \o <<2>>),
                       sc, path, unary_operation_types[expr.children[1].type])
    ELSE IF /\ Len(expr.children) = 3
            /\ IsToken(expr.children[2])
            /\ expr.children[2].type \in DOMAIN binary_operation_types
    THEN check_binary_1(type_check_expr(h, sc, expr.children[1], path \o <<1>>),
                        sc, expr, path)
    ELSE IF /\ Len(expr.children) = 3
            /\ IsToken(expr.children[2])
            /\ expr.data = "compare_expression"
    THEN check_compare(h, sc, expr, path)
    ELSE Typed(AppendError(h, sc, path, "internal_expression"), TNone)

(***************************************************************************)
(* The host: what importlib.import_module can load.                        *)
(***************************************************************************)
\* The modules the host can import, each with the commands it defines.
HostModules == [math |-> {"sqrt", "fsum"}, os |-> {"getcwd"}]

\* importlib.import_module(name): the module is named by its __name__;
\* a name the host cannot load raises ModuleNotFoundError.
import_module(h, sc, name) ==
    IF name \in DOMAIN HostModules
    THEN [h EXCEPT !.scopes[sc].imports = Append(@, name)]
    ELSE [h EXCEPT !.raised = "ModuleNotFoundError"]

\* deccall's argument nodes as (name, type) pairs.
Arguments(deccall) ==
    [i \in 1..(Len(deccall.children) - 1) |->
        [name |-> deccall.children[i + 1].children[1].value,
         type |-> deccall.children[i + 1].children[2].value]]

\* The zip loop that seeds a call or check scope with the arguments.
RECURSIVE SeedArguments(_, _, _, _, _)
SeedArguments(h, sc, arguments, values, k) ==
    IF k > Len(arguments) \/ k > Len(values) THEN h
    ELSE SeedArguments(
            SetVariable(h, sc, arguments[k].name,
                        Variable(Prim(arguments[k].type), values[k])),
            sc, arguments, values, k + 1)

(***************************************************************************)
(* The type checker: commands.  The result is the heap and the exit point: *)
(* the path of the command that exits, <<>> for False.                     *)
(***************************************************************************)
Checked(h, exit) == [h |-> h, exit |-> exit]

RECURSIVE type_check_command(_, _, _, _)
RECURSIVE check_function_body(_, _, _, _, _, _, _, _)
RECURSIVE check_loop_body(_, _, _, _, _, _)

\* A faulty variant of the turn that never sets warned: every command
\* after the exit point warns.
check_function_body_warn_each(c, self, scope, codeblock, cbpath, k, exit_point, warned) ==
    IF c.h.raised # "" THEN Checked(c.h, exit_point)
    ELSE IF c.exit # <<>> /\ exit_point = <<>>
    THEN check_function_body(c.h, self, scope, codeblock, cbpath, k + 1,
                             c.exit, warned)
    ELSE IF exit_point # <<>>
    THEN check_function_body(
            AppendWarning(c.h, self, exit_point, "commands_after_return"),
            self, scope, codeblock, cbpath, k + 1, exit_point, FALSE)
    ELSE check_function_body(c.h, self, scope, codeblock, cbpath, k + 1,
                             exit_point, warned)

\* One turn of the loop over a function's body; c is the checked
\* instruction.  The first exit point is kept and the first command after
\* it warns once, on the defining scope's warnings list.
check_function_body_1(c, self, scope, codeblock, cbpath, k, exit_point, warned) ==
    IF c.h.raised # "" THEN Checked(c.h, exit_point)
    ELSE IF c.exit # <<>> /\ exit_point = <<>>
    THEN check_function_body(c.h, self, scope, codeblock, cbpath, k + 1,
                             c.exit, warned)
    ELSE IF exit_point # <<>> /\ ~warned
    THEN check_function_body(
            AppendWarning(c.h, self, exit_point, "commands_after_return"),
            self, scope, codeblock, cbpath, k + 1, exit_point, TRUE)
    ELSE check_function_body(c.h, self, scope, codeblock, cbpath, k + 1,
                             exit_point, warned)

\* for instruction in codeblock.children, in a function definition.
check_function_body(h, self, scope, codeblock, cbpath, k, exit_point, warned) ==
    IF k > Len(codeblock.children) THEN Checked(h, exit_point)
    ELSE check_function_body_1(
            type_check_command(h, scope, codeblock.children[k], cbpath \o <<k>>),
            self, scope, codeblock, cbpath, k, exit_point, warned)

\* One turn of the loop over a loop's body; c is the checked child.  Only
\* the first exit point is kept.
check_loop_body_1(c, scope, code, cpath, k, exit_point) ==
    IF c.h.raised # "" THEN Checked(c.h, exit_point)
    ELSE check_loop_body(c.h, scope, code, cpath, k + 1,
                         IF exit_point = <<>> THEN c.exit ELSE exit_point)

\* for child in code.children, in a loop.
check_loop_body(h, scope, code, cpath, k, exit_point) ==
    IF k > Len(code.children) THEN Checked(h, exit_point)
    ELSE check_loop_body_1(
            type_check_command(h, scope, code.children[k], cpath \o <<k>>),
            scope, code, cpath, k, exit_point)

\* Check default return; d is the checked default-return expression.
check_default_return_1(d, self, command, path) ==
    ErrorIf(d.ty # TNone /\ d.ty # Prim(command.children[2].value), d.h, self,
            path \o <<4>>, "default_return_type")

check_default_return(h, self, command, path) ==
    IF Len(command.children) = 3 THEN h
    ELSE check_default_return_1(
            type_check_expr(h, self, command.children[4], path \o <<4>>),
            self, command, path)

\* Check if duplicate name.
check_duplicate_name(h, self, name, path) ==
    ErrorIf(DictHas(h.scopes[self].variables, name.value), h, self, path,
            "already_defined")

\* Function(self, arguments, returntype.value, codeblock, defaultreturn)
FunctionOf(self, command, path) ==
    Function(self, Arguments(command.children[1]), command.children[2].value,
             command.children[3], path \o <<3>>,
             IF Len(command.children) = 3 THEN NoNode ELSE command.children[4],
             path \o <<4>>)

\* self.variables[name.value] = function, the object stored in the heap.
DefineFunction(h, self, name, function) ==
    SetVariable([h EXCEPT !.funcs = Append(@, function)], self, name,
                Variable(function.type, FunV(Len(h.funcs) + 1)))

\* b is the checked body.
check_redundant_return(b, self, command) ==
    IF b.exit # <<>> /\ Len(command.children) # 3 /\ b.h.raised = ""
    THEN AppendWarning(b.h, self, b.exit, "redundant_return")
    ELSE b.h

\* h has the function stored last and self.variables updated: the
\* body's scope is new_scope(parent_function=function) with every
\* argument bound to "anything".
check_function_def_2(h, self, command, path) ==
    check_redundant_return(
        check_function_body(
            SeedArguments(new_scope(h, self, Len(h.funcs)), Len(h.scopes) + 1,
                          Arguments(command.children[1]),
                          [i \in 1..(Len(command.children[1].children) - 1) |->
                              Anything],
                          1),
            self, Len(h.scopes) + 1, command.children[3], path \o <<3>>, 1,
            <<>>, FALSE),
        self, command)

\* h has the default return and the duplicate name checked.
check_function_def_1(h, self, command, path) ==
    check_function_def_2(
        DefineFunction(h, self, command.children[1].children[1].value,
                       FunctionOf(self, command, path)),
        self, command, path)

\* h has the iterable checked: the child scope with the loop variable,
\* then the body.
check_loop_2(h, self, command, path) ==
    check_loop_body(
        SetVariable(new_scope(h, self, 0), Len(h.scopes) + 1,
                    command.children[2].children[1].value,
                    Variable(Prim(command.children[2].children[2].value), Whatever)),
        Len(h.scopes) + 1, command.children[3], path \o <<3>>, 1, <<>>)

\* i is the checked iterable: iterated_type = iterable_types.get(its
\* type) and the two diagnostics, then the body.
check_loop_1(i, self, command, path) ==
    check_loop_2(
        IF i.ty = TNone THEN i.h
        ELSE IF iterable_types(i.ty) = TNone
        THEN AppendError(i.h, self, path \o <<1>>, "not_iterable")
        ELSE IF Prim(command.children[2].children[2].value) # iterable_types(i.ty)
        THEN AppendError(i.h, self, path \o <<2, 2>>, "loop_variable_type")
        ELSE i.h,
        self, command, path)

\* r is the checked returned expression.
check_return_1(r, self, path) ==
    IF get_parent_function(r.h, self) = 0
    THEN AppendError(r.h, self, path, "return_outside_function")
    ELSE IF /\ r.ty # TNone
            /\ Prim(r.h.funcs[get_parent_function(r.h, self)].returntype) # r.ty
    THEN AppendError(r.h, self, path \o <<1>>, "return_type")
    ELSE r.h

\* v is the checked value; the name is bound whatever was reported.
check_declare_1(v, self, name_type, path) ==
    SetVariable(
        ErrorIf(v.ty # TNone /\ v.ty # Prim(name_type.children[2].value), v.h,
                self, path \o <<2>>, "declare_type"),
        self, name_type.children[1].value,
        Variable(Prim(name_type.children[2].value), Whatever))

\* c is the checked condition: cond_type and its diagnostic.
check_condition_1(c, self, path) ==
    ErrorIf(c.ty # TNone /\ c.ty # Prim("bool"), c.h, self, path,
            "condition_not_bool")

check_condition(h, self, condition, path) ==
    check_condition_1(type_check_expr(h, self, condition, path), self, path)

\* if exit_if_true and exit_if_false: return command
check_ifelse_2(exit_if_true, exit_if_false, path) ==
    Checked(exit_if_false.h,
            IF exit_if_true.exit # <<>> /\ exit_if_false.exit # <<>>
            THEN path ELSE <<>>)

\* The second branch check of an if-else command is given if_true (the
\* first branch) again: the code never checks if_false.
check_ifelse_1(exit_if_true, self, command, path) ==
    IF exit_if_true.h.raised # "" THEN Checked(exit_if_true.h, <<>>)
    ELSE check_ifelse_2(exit_if_true,
                        type_check_command(exit_if_true.h, self,
                                           command.children[2], path \o <<2>>),
                        path)

\* The branches of type_check_command on command = tree.children[0].
check_command(h, self, command, path) ==
    IF command.data = "imp"
    THEN Checked(import_module(h, self, command.children[1].value), <<>>)
    ELSE IF command.data = "function_def"
    THEN Checked(
            check_function_def_1(
                check_duplicate_name(
                    check_default_return(h, self, command, path), self,
                    command.children[1].children[1], path \o <<1, 1>>),
                self, command, path),
            <<>>)
    ELSE IF command.data = "loop"
    THEN check_loop_1(
            type_check_expr(h, self, command.children[1], path \o <<1>>),
            self, command, path)
    ELSE IF command.data = "print"
    THEN Checked(type_check_expr(h, self, command.children[1], path \o <<1>>).h,
                 <<>>)
    ELSE IF command.data = "return"
    THEN Checked(
            check_return_1(
                type_check_expr(h, self, command.children[1], path \o <<1>>),
                self, path),
            path)
    ELSE IF command.data = "declare"
    THEN Checked(
            check_declare_1(
                type_check_expr(
                    check_duplicate_name(h, self, command.children[1].children[1],
                                         path \o <<1, 1>>),
                    self, command.children[2], path \o <<2>>),
                self, command.children[1], path),
            <<>>)
    ELSE IF command.data = "if"
    THEN Checked(type_check_command(
                    check_condition(h, self, command.children[1], path \o <<1>>),
                    self, command.children[2], path \o <<2>>).h,
                 <<>>)
    ELSE IF command.data = "ifelse"
    THEN check_ifelse_1(
            type_check_command(
                check_condition(h, self, command.children[1], path \o <<1>>),
                self, command.children[2], path \o <<2>>),
            self, command, path)
    ELSE Checked(type_check_expr(h, self, command, path).h, <<>>)

type_check_command(h, self, tree, ipath) ==
    IF tree.data # "instruction"
    THEN Checked(AppendError(h, self, ipath, "internal_instruction"), <<>>)
    ELSE check_command(h, self, tree.children[1], ipath \o <<1>>)

(***************************************************************************)
(* The host's operators on values (Python's or, and, not, ==, <, +, -, *,  *)
(* /, //, %, ** and unary -).  A result is [exc, v]: exc names the         *)
(* exception raised, "" when the operator returns v.                       *)
(***************************************************************************)
Return(v) == [exc |-> "", v |-> v]
Raise(exc) == [exc |-> exc, v |-> NoneV]

IsNumber(v) == v.t \in {"int", "bool", "float"}

\* bool(v)
Truthy(v) ==
    IF IsNumber(v) THEN v.n # 0
    ELSE IF v.t = "str" THEN v.q # <<>>
    ELSE v.t # "NoneType"

\* floor(x / y) for y # 0
FloorDiv(x, y) == IF y > 0 THEN x \div y ELSE (-x) \div (-y)

RECURSIVE IntPow(_, _)
IntPow(b, e) == IF e = 0 THEN 1 ELSE b * IntPow(b, e - 1)

\* The characters in code point order, for str comparison.
CodePoints ==
    <<"0", "1", "2", "3", "4", "5", "6", "7", "8", "9",
      "a", "b", "c", "d", "e", "f", "g", "h", "i", "j", "k", "l", "m",
      "n", "o", "p", "q", "r", "s", "t", "u", "v", "w", "x", "y", "z">>

RECURSIVE StrLess(_, _)
StrLess(p, q) ==
    IF q = <<>> THEN FALSE
    ELSE IF p = <<>> THEN TRUE
    ELSE IF Head(p) = Head(q) THEN StrLess(Tail(p), Tail(q))
    ELSE (CHOOSE i \in 1..Len(CodePoints) : CodePoints[i] = Head(p))
            < (CHOOSE i \in 1..Len(CodePoints) : CodePoints[i] = Head(q))

\* a == b
PyEq(a, b) ==
    IF IsNumber(a) /\ IsNumber(b) THEN a.n * b.d = b.n * a.d
    ELSE IF a.t = "str" /\ b.t = "str" THEN a.q = b.q
    ELSE IF a.t = "function" /\ b.t = "function" THEN a.n = b.n
    ELSE a.t = "NoneType" /\ b.t = "NoneType"

\* a < b
PyLess(a, b) ==
    IF IsNumber(a) /\ IsNumber(b) THEN Return(BoolV(a.n * b.d < b.n * a.d))
    ELSE IF a.t = "str" /\ b.t = "str" THEN Return(BoolV(StrLess(a.q, b.q)))
    ELSE Raise("TypeError")

\* a <= b
PyLessEq(a, b) ==
    IF IsNumber(a) /\ IsNumber(b) THEN Return(BoolV(a.n * b.d <= b.n * a.d))
    ELSE IF a.t = "str" /\ b.t = "str"
    THEN Return(BoolV(a.q = b.q \/ StrLess(a.q, b.q)))
    ELSE Raise("TypeError")

PyCompare(comparison, a, b) ==
    IF comparison = "EQUALS" THEN Return(BoolV(PyEq(a, b)))
    ELSE IF comparison = "GORE" THEN PyLessEq(b, a)
    ELSE IF comparison = "LORE" THEN PyLessEq(a, b)
    ELSE IF comparison = "LESS" THEN PyLess(a, b)
    ELSE IF comparison = "GREATER" THEN PyLess(b, a)
    ELSE IF comparison \in {"NEQUALS", "NEQUALS_QUIRKY"}
    THEN Return(BoolV(~PyEq(a, b)))
    ELSE Raise("SyntaxError")

PyAdd(a, b) ==
    IF a.t = "str" /\ b.t = "str" THEN Return(StrV(a.q \o b.q))
    ELSE IF IsNumber(a) /\ IsNumber(b)
    THEN IF a.t = "float" \/ b.t = "float"
         THEN Return(FloatV(a.n * b.d + b.n * a.d, a.d * b.d))
         ELSE Return(IntV(a.n + b.n))
    ELSE Raise("TypeError")

PySubtract(a, b) ==
    IF IsNumber(a) /\ IsNumber(b)
    THEN IF a.t = "float" \/ b.t = "float"
         THEN Return(FloatV(a.n * b.d - b.n * a.d, a.d * b.d))
         ELSE Return(IntV(a.n - b.n))
    ELSE Raise("TypeError")

\* a * b, for numbers; the repetition str * int is outside the model
PyMultiply(a, b) ==
    IF IsNumber(a) /\ IsNumber(b)
    THEN IF a.t = "float" \/ b.t = "float"
         THEN Return(FloatV(a.n * b.n, a.d * b.d))
         ELSE Return(IntV(a.n * b.n))
    ELSE IF {a.t, b.t} = {"str", "int"} \/ {a.t, b.t} = {"str", "bool"}
    THEN Raise("Unmodelled")
    ELSE Raise("TypeError")

\* a / b: true division, a float whatever the operands
PyDivide(a, b) ==
    IF IsNumber(a) /\ IsNumber(b)
    THEN IF b.n = 0 THEN Raise("ZeroDivisionError")
         ELSE Return(FloatV(a.n * b.d, a.d * b.n))
    ELSE Raise("TypeError")

\* a // b: floor division
PyRoundDiv(a, b) ==
    IF IsNumber(a) /\ IsNumber(b)
    THEN IF b.n = 0 THEN Raise("ZeroDivisionError")
         ELSE IF a.t = "float" \/ b.t = "float"
         THEN Return(FloatV(FloorDiv(a.n * b.d, a.d * b.n), 1))
         ELSE Return(IntV(FloorDiv(a.n, b.n)))
    ELSE Raise("TypeError")

\* a % b: a - b * floor(a / b)
PyModulo(a, b) ==
    IF IsNumber(a) /\ IsNumber(b)
    THEN IF b.n = 0 THEN Raise("ZeroDivisionError")
         ELSE IF a.t = "float" \/ b.t = "float"
         THEN LET f == FloorDiv(a.n * b.d, a.d * b.n)
              IN Return(FloatV(a.n * b.d - f * b.n * a.d, a.d * b.d))
         ELSE Return(IntV(a.n - b.n * FloorDiv(a.n, b.n)))
    ELSE IF a.t = "str" THEN Raise("Unmodelled")
    ELSE Raise("TypeError")

\* a ** b: an int for ints with b >= 0, a float for a negative int power
\* or a float operand, a complex for a negative base to a fractional power
PyExponent(a, b) ==
    IF IsNumber(a) /\ IsNumber(b)
    THEN IF ~a.t = "float" /\ ~b.t = "float" /\ b.n >= 0
         THEN Return(IntV(IntPow(a.n, b.n)))
         ELSE IF b.d = 1
         THEN IF b.n >= 0
              THEN Return(FloatV(IntPow(a.n, b.n), IntPow(a.d, b.n)))
              ELSE IF a.n = 0 THEN Raise("ZeroDivisionError")
              ELSE Return(FloatV(IntPow(a.d, -b.n), IntPow(a.n, -b.n)))
         ELSE IF a.n = 0
         THEN IF b.n > 0 THEN Return(FloatV(0, 1)) ELSE Raise("ZeroDivisionError")
         ELSE IF a.n < 0 THEN Return(ComplexV)
         ELSE Raise("Unmodelled")
    ELSE Raise("TypeError")

\* -a
PyNegate(a) ==
    IF a.t = "float" THEN Return(FloatV(-a.n, a.d))
    ELSE IF IsNumber(a) THEN Return(IntV(-a.n))
    ELSE Raise("TypeError")

\* int(text) of a token's text: decimal digits, anything else ValueError.
Digits == <<"0", "1", "2", "3", "4", "5", "6", "7", "8", "9">>

RECURSIVE ParseDigits(_, _)
ParseDigits(text, acc) ==
    IF text = <<>> THEN acc
    ELSE ParseDigits(Tail(text),
                     10 * acc + (CHOOSE i \in 1..10 : Digits[i] = Head(text)) - 1)

PyInt(text) ==
    IF text # <<>> /\ \A i \in 1..Len(text) : \E j \in 1..10 : Digits[j] = text[i]
    THEN Return(IntV(ParseDigits(text, 0)))
    ELSE Raise("ValueError")

\* str(i) of an int: its decimal digits, with a sign
RECURSIVE DigitsOf(_)
DigitsOf(i) ==
    IF i < 10 THEN <<Digits[i + 1]>>
    ELSE DigitsOf(i \div 10) \o <<Digits[(i % 10) + 1]>>

PyStr(i) == IF i < 0 THEN <<"-">> \o DigitsOf(-i) ELSE DigitsOf(i)

(***************************************************************************)
(* The evaluator.  An expression returns [h, v], a command returns         *)
(* [h, exit, v]; h.raised names the exception that is propagating ("" when *)
(* none), and every caller passes it on untouched, as an uncaught Python   *)
(* exception unwinds.  h.trace is a history of what the evaluator did.     *)
(***************************************************************************)
\* The interpreter's bound on nested calls (Python's recursion limit, in
\* N calls).
RecursionLimit == 3

\* One more entry of the history: what was done, on which node, in which
\* scope, at which call depth.
Log(h, kind, node, scope, name, v) ==
    [h EXCEPT !.trace = Append(@,
        [kind |-> kind, node |-> node, scope |-> scope, depth |-> h.depth,
         name |-> name, v |-> v])]

Ok(h, v) == [h |-> h, v |-> v]

Fail(h, exc) == [h |-> [h EXCEPT !.raised = exc], v |-> NoneV]

\* The outcome r of a host operator, in heap h.
Returned(h, r) == IF r.exc # "" THEN Fail(h, r.exc) ELSE Ok(h, r.v)

\* A command's result when it does not exit: (False, None).
NoReturn(h) == [h |-> h, exit |-> FALSE, v |-> NoneV]

\* self.variables[name] = Variable(type, value), in the evaluator
Bind(h, sc, name, type, value) ==
    Log(SetVariable(h, sc, name, Variable(type, value)), "bind", <<>>, sc, name,
        Variable(type, value))

\* What eval_value returns or raises.
token_value(h, sc, value) ==
    IF value.type = "NUMBER" THEN PyInt(value.text)
    ELSE IF value.type = "STRING"
    THEN Return(StrV(SubSeq(value.text, 2, Len(value.text) - 1)))
    ELSE IF value.type = "BOOLEAN"
    THEN IF value.value = "false" THEN Return(BoolV(FALSE))
         ELSE IF value.value = "true" THEN Return(BoolV(TRUE))
         ELSE Raise("SyntaxError")
    ELSE IF value.type = "NAME"
    THEN IF get_variable(h, sc, value.value).found
         THEN Return(get_variable(h, sc, value.value).var.value)
         ELSE Raise("NameError")
    ELSE Raise("SyntaxError")

\* r is what the token evaluates to; the read is recorded in the trace.
eval_value_1(r, h, sc, value, path) ==
    IF r.exc # "" THEN Fail(h, r.exc)
    ELSE Ok(Log(h, "value", path, sc,
                IF value.type = "NAME" THEN value.value ELSE "", r.v),
            r.v)

PyBinary(operation, a, b) ==
    IF operation = "ADD" THEN PyAdd(a, b)
    ELSE IF operation = "SUBTRACT" THEN PySubtract(a, b)
    ELSE IF operation = "MULTIPLY" THEN PyMultiply(a, b)
    ELSE IF operation = "DIVIDE" THEN PyDivide(a, b)
    ELSE IF operation = "ROUNDDIV" THEN PyRoundDiv(a, b)
    ELSE IF operation = "MODULO" THEN PyModulo(a, b)
    ELSE IF operation = "EXPONENT" THEN PyExponent(a, b)
    ELSE PyCompare(operation, a, b)

RECURSIVE eval_expr(_, _, _, _)
RECURSIVE eval_command(_, _, _, _)
RECURSIVE eval_arguments(_, _, _, _, _, _)
RECURSIVE eval_block(_, _, _, _, _)
RECURSIVE eval_loop(_, _, _, _, _, _)

\* b is the evaluated right operand, left the left operand's value.
eval_binary_2(left, b, operation) ==
    IF b.h.raised # "" THEN b ELSE Returned(b.h, PyBinary(operation, left, b.v))

\* a is the evaluated left operand.
eval_binary_1(a, sc, operation, right, rpath) ==
    IF a.h.raised # "" THEN a
    ELSE eval_binary_2(a.v, eval_expr(a.h, sc, right, rpath), operation)

\* self.eval_expr(left) <op> self.eval_expr(right): left, then right, then
\* the host operator.
eval_binary(h, sc, operation, left, lpath, right, rpath) ==
    eval_binary_1(eval_expr(h, sc, left, lpath), sc, operation, right, rpath)

\* a is the evaluated argument k.
eval_arguments_1(a, sc, nodes, paths, k, acc) ==
    IF a.h.raised # "" THEN Ok(a.h, acc)
    ELSE eval_arguments(a.h, sc, nodes, paths, k + 1, Append(acc, a.v))

\* [self.eval_expr(arg) for arg in ...]: nodes[k] at paths[k], in order;
\* the result's v is the list of values.
eval_arguments(h, sc, nodes, paths, k, acc) ==
    IF k > Len(nodes) THEN Ok(h, acc)
    ELSE eval_arguments_1(eval_expr(h, sc, nodes[k], paths[k]), sc, nodes, paths,
                          k, acc)

\* A faulty variant of the turn that drops `if exit: return value`: the
\* block runs on after a return.
eval_block_no_exit(c, scope, block, bpath, k) ==
    IF c.h.raised # "" THEN c
    ELSE eval_block(c.h, scope, block, bpath, k + 1)

\* c is the evaluated instruction k: if exit: return.
eval_block_1(c, scope, block, bpath, k) ==
    IF c.h.raised # "" \/ c.exit THEN c
    ELSE eval_block(c.h, scope, block, bpath, k + 1)

\* for instruction in block: exit, value = scope.eval_command(instruction).
\* Shared by Function.run and a loop's iteration.
eval_block(h, scope, block, bpath, k) ==
    IF k > Len(block.children) THEN NoReturn(h)
    ELSE eval_block_1(eval_command(h, scope, block.children[k], bpath \o <<k>>),
                      scope, block, bpath, k)

\* NativeFunction.run: self.function(*arguments), for intInBase10's
\* lambda number: str(number)
run_native(h, function, arguments) ==
    IF Len(arguments) # 1 THEN Fail(h, "TypeError")
    ELSE IF arguments[1].t = "int"
    THEN Ok(h, StrV(PyStr(arguments[1].n)))
    ELSE Fail(h, "Unmodelled")

\* for value, (arg_type, arg_name) in zip(arguments, self.arguments):
\* scope.variables[arg_name] = Variable(arg_type, value)
RECURSIVE BindArguments(_, _, _, _, _)
BindArguments(h, sc, arguments, values, k) ==
    IF k > Len(arguments) \/ k > Len(values) THEN h
    ELSE BindArguments(
            Bind(h, sc, arguments[k].name, Prim(arguments[k].type), values[k]),
            sc, arguments, values, k + 1)

\* The scope of a call: self.scope.new_scope(parent_function=self) with
\* the arguments bound; it is the scope after the last of h.
call_scope(h, id, arguments) ==
    BindArguments(
        Log(new_scope([h EXCEPT !.depth = @ + 1], h.funcs[id].scope, id),
            "call", h.funcs[id].cbpath, Len(h.scopes) + 1, "", FunV(id)),
        Len(h.scopes) + 1, h.funcs[id].arguments, arguments, 1)

\* The call returns v.
leave(h, v, function, scope) ==
    Ok([Log(h, "result", function.cbpath, scope, "", v) EXCEPT !.depth = @ - 1], v)

\* d is the evaluated default return.
run_2(d, function, scope) ==
    IF d.h.raised # "" THEN d
    ELSE leave(Log(d.h, "default", function.drpath, scope, "", d.v), d.v,
               function, scope)

\* b is the evaluated body: if exit: return value, else
\* return scope.eval_expr(self.defaultreturn).
run_1(b, function, scope) ==
    IF b.h.raised # "" THEN Ok(b.h, NoneV)
    ELSE IF b.exit THEN leave(b.h, b.v, function, scope)
    ELSE IF function.defaultreturn = NoNode THEN Fail(b.h, "AttributeError")
    ELSE run_2(eval_expr(b.h, scope, function.defaultreturn, function.drpath),
               function, scope)

\* Function.run
run(h, id, arguments) ==
    IF h.funcs[id].native # "" THEN run_native(h, h.funcs[id], arguments)
    ELSE IF h.depth >= RecursionLimit THEN Fail(h, "RecursionError")
    ELSE IF Len(arguments) < Len(h.funcs[id].arguments)
    THEN Fail(new_scope(h, h.funcs[id].scope, id), "TypeError")
    ELSE run_1(eval_block(call_scope(h, id, arguments), Len(h.scopes) + 1,
                          h.funcs[id].codeblock, h.funcs[id].cbpath, 1),
               h.funcs[id], Len(h.scopes) + 1)

\* a is the evaluated argument list, f the callee's value.
eval_function_callback_2(a, f) ==
    IF a.h.raised # "" THEN Ok(a.h, NoneV) ELSE run(a.h, f.n, a.v)

\* f is the evaluated callee: its run attribute, then the arguments.
eval_function_callback_1(f, sc, call, path) ==
    IF f.h.raised # "" THEN f
    ELSE IF f.v.t # "function" THEN Fail(f.h, "AttributeError")
    ELSE eval_function_callback_2(
            eval_arguments(f.h, sc, Tail(call.children),
                           [i \in 1..(Len(call.children) - 1) |->
                                path \o <<1, i + 1>>],
                           1, <<>>),
            f.v)

\* The sum of a list of numbers as a rational.
RECURSIVE Fsum(_, _)
Fsum(values, acc) ==
    IF values = <<>> THEN Return(acc)
    ELSE IF ~IsNumber(Head(values)) THEN Raise("TypeError")
    ELSE Fsum(Tail(values),
              FloatV(acc.n * Head(values).d + Head(values).n * acc.d,
                     acc.d * Head(values).d))

\* a is the evaluated argument list.  com([...]) applies the host's
\* command to ONE argument, the list of the values: math.fsum takes a
\* list; math.sqrt and os.getcwd do not.
eval_imported_command_1(a, sc, l, c, path) ==
    IF a.h.raised # "" THEN Ok(a.h, NoneV)
    ELSE Returned(Log(a.h, "host", path, sc, l, NoneV),
                  IF l = "math" /\ c = "fsum" THEN Fsum(a.v, FloatV(0, 1))
                  ELSE Raise("TypeError"))

\* h has the lookup recorded; library is whether find_import found it.
found_import(h, library, sc, expr, path) ==
    IF ~library THEN Fail(h, "SyntaxError")
    ELSE IF expr.children[2].value \notin HostModules[expr.children[1].value]
    THEN Fail(h, "AttributeError")
    ELSE eval_imported_command_1(
            eval_arguments(
                h, sc,
                [i \in 1..(Len(expr.children) - 2) |->
                    expr.children[i + 2].children[1]],
                [i \in 1..(Len(expr.children) - 2) |-> path \o <<i + 2, 1>>],
                1, <<>>),
            sc, expr.children[1].value, expr.children[2].value, path)

\* The link itself: left (the left link's right operand in a chain)
\* against right.
eval_link(h, sc, comparison, left, lpath, right, rpath) ==
    IF comparison \notin {"EQUALS", "GORE", "LORE", "LESS", "GREATER", "NEQUALS",
                          "NEQUALS_QUIRKY"}
    THEN Fail(h, "SyntaxError")
    ELSE eval_binary(h, sc, comparison, left, lpath, right, rpath)

\* A faulty variant of the chain step that drops `if not self.eval_expr(left):
\* return False`: the last link alone decides.
eval_compare_no_short_circuit(c, sc, expr, path) ==
    IF c.h.raised # "" THEN c
    ELSE eval_link(c.h, sc, expr.children[2].type,
                   expr.children[1].children[3], path \o <<1, 3>>,
                   expr.children[3], path \o <<3>>)

\* c is the evaluated left link of a chain: if not c: return False.
eval_compare_1(c, sc, expr, path) ==
    IF c.h.raised # "" THEN c
    ELSE IF ~Truthy(c.v) THEN Ok(c.h, BoolV(FALSE))
    ELSE eval_link(c.h, sc, expr.children[2].type,
                   expr.children[1].children[3], path \o <<1, 3>>,
                   expr.children[3], path \o <<3>>)

eval_compare(h, sc, expr, path) ==
    IF expr.children[1].data = "compare_expression"
    THEN eval_compare_1(eval_expr(h, sc, expr.children[1], path \o <<1>>),
                        sc, expr, path)
    ELSE eval_link(h, sc, expr.children[2].type, expr.children[1], path \o <<1>>,
                   expr.children[3], path \o <<3>>)

\* c is the evaluated condition of an if-else expression.
eval_ifelse_expr_1(c, sc, expr, path) ==
    IF c.h.raised # "" THEN c
    ELSE IF Truthy(c.v) THEN eval_expr(c.h, sc, expr.children[2], path \o <<2>>)
    ELSE eval_expr(c.h, sc, expr.children[3], path \o <<3>>)

\* l is the evaluated left operand of or.
eval_or_1(l, sc, expr, path) ==
    IF l.h.raised # "" \/ Truthy(l.v) THEN l
    ELSE eval_expr(l.h, sc, expr.children[3], path \o <<3>>)

\* l is the evaluated left operand of and.
eval_and_1(l, sc, expr, path) ==
    IF l.h.raised # "" \/ ~Truthy(l.v) THEN l
    ELSE eval_expr(l.h, sc, expr.children[3], path \o <<3>>)

\* x is the evaluated operand of not or of unary minus.
eval_unary_1(x, operation) ==
    IF x.h.raised # "" THEN x
    ELSE IF operation = "NOT" THEN Ok(x.h, BoolV(~Truthy(x.v)))
    ELSE Returned(x.h, PyNegate(x.v))

eval_expr(h, sc, expr, path) ==
    IF IsToken(expr)
    THEN eval_value_1(token_value(h, sc, expr), h, sc, expr, path)
    ELSE IF expr.data = "ifelse_expr"
    THEN eval_ifelse_expr_1(eval_expr(h, sc, expr.children[1], path \o <<1>>),
                            sc, expr, path)
    ELSE IF expr.data = "function_callback"
    THEN eval_function_callback_1(
            eval_expr(h, sc, expr.children[1].children[1], path \o <<1, 1>>),
            sc, expr.children[1], path)
    ELSE IF expr.data = "imported_command"
    THEN found_import(
            Log(h, "find_import", path, sc, expr.children[1].value,
                BoolV(find_import(h, sc, expr.children[1].value))),
            find_import(h, sc, expr.children[1].value), sc, expr, path)
    ELSE IF expr.data = "or_expression"
    THEN eval_or_1(eval_expr(h, sc, expr.children[1], path \o <<1>>), sc, expr, path)
    ELSE IF expr.data = "and_expression"
    THEN eval_and_1(eval_expr(h, sc, expr.children[1], path \o <<1>>), sc, expr, path)
    ELSE IF expr.data = "not_expression"
    THEN eval_unary_1(eval_expr(h, sc, expr.children[2], path \o <<2>>), "NOT")
    ELSE IF expr.data = "compare_expression"
    THEN eval_compare(h, sc, expr, path)
    ELSE IF expr.data = "sum_expression"
    THEN IF expr.children[2].type \in {"ADD", "SUBTRACT"}
         THEN eval_binary(h, sc, expr.children[2].type,
                          expr.children[1], path \o <<1>>,
                          expr.children[3], path \o <<3>>)
         ELSE Fail(h, "SyntaxError")
    ELSE IF expr.data = "product_expression"
    THEN IF expr.children[2].type \in {"MULTIPLY", "DIVIDE", "ROUNDDIV", "MODULO"}
         THEN eval_binary(h, sc, expr.children[2].type,
                          expr.children[1], path \o <<1>>,
                          expr.children[3], path \o <<3>>)
         ELSE Fail(h, "SyntaxError")
    ELSE IF expr.data = "exponent_expression"
    THEN eval_binary(h, sc, "EXPONENT", expr.children[1], path \o <<1>>,
                     expr.children[3], path \o <<3>>)
    ELSE IF expr.data = "unary_expression"
    THEN IF expr.children[1].type = "NEGATE"
         THEN eval_unary_1(eval_expr(h, sc, expr.children[2], path \o <<2>>),
                           "NEGATE")
         ELSE Fail(h, "SyntaxError")
    ELSE IF expr.data = "value"
    THEN IF IsToken(expr.children[1])
         THEN eval_value_1(token_value(h, sc, expr.children[1]), h, sc,
                           expr.children[1], path \o <<1>>)
         ELSE eval_expr(h, sc, expr.children[1], path \o <<1>>)
    ELSE Fail(h, "SyntaxError")

\* b is the evaluated body of iteration i.
eval_loop_1(b, self, command, path, i, n) ==
    IF b.h.raised # "" \/ b.exit THEN b
    ELSE eval_loop(b.h, self, command, path, i + 1, n)

\* for i in range(int(times)): a new child scope per iteration, the loop
\* variable bound in it, the body run until a command exits.
eval_loop(h, self, command, path, i, n) ==
    IF i >= n THEN NoReturn(h)
    ELSE eval_loop_1(
            eval_block(Bind(new_scope(h, self, 0), Len(h.scopes) + 1,
                            command.children[2].children[1].value,
                            Prim(command.children[2].children[2].value), IntV(i)),
                       Len(h.scopes) + 1, command.children[3], path \o <<3>>, 1),
            self, command, path, i, n)

\* h has the message printed when type != "int"; n is int(times).
eval_loop_command(h, n, self, command, path) ==
    IF n.exc # "" THEN NoReturn([h EXCEPT !.raised = n.exc])
    ELSE eval_loop(h, self, command, path, 0, n.v.n)

\* self.variables[name] = Function(self, arguments, returntype.value,
\* codeblock, defaultreturn)
eval_function_def(h, self, command, path) ==
    Bind([h EXCEPT !.funcs = Append(@, FunctionOf(self, command, path))], self,
         command.children[1].children[1].value,
         FunctionOf(self, command, path).type, FunV(Len(h.funcs) + 1))

\* x is the evaluated expression of print.
eval_print_1(x) ==
    IF x.h.raised # "" THEN NoReturn(x.h)
    ELSE NoReturn([x.h EXCEPT !.out = Append(@, x.v)])

\* x is the evaluated expression of return.
eval_return_1(x, self, path) ==
    IF x.h.raised # "" THEN NoReturn(x.h)
    ELSE [h |-> Log(x.h, "return", path, self, "", x.v), exit |-> TRUE,
          v |-> x.v]

\* x is the evaluated value of a declaration.
eval_declare_1(x, self, name_type) ==
    IF x.h.raised # "" THEN NoReturn(x.h)
    ELSE NoReturn(Bind(x.h, self, name_type.children[1].value,
                       Prim(name_type.children[2].value), x.v))

\* self.new_scope().eval_command(body)
eval_in_new_scope(h, self, body, path) ==
    eval_command(new_scope(h, self, 0), Len(h.scopes) + 1, body, path)

\* c is the evaluated condition of an if command.
eval_if_1(c, self, command, path) ==
    IF c.h.raised # "" \/ ~Truthy(c.v) THEN NoReturn(c.h)
    ELSE eval_in_new_scope(c.h, self, command.children[2], path \o <<2>>)

\* c is the evaluated condition of an if-else command.
eval_ifelse_1(c, self, command, path) ==
    IF c.h.raised # "" THEN NoReturn(c.h)
    ELSE IF Truthy(c.v)
    THEN eval_in_new_scope(c.h, self, command.children[2], path \o <<2>>)
    ELSE eval_in_new_scope(c.h, self, command.children[3], path \o <<3>>)

\* The branches of eval_command on command = tree.children[0]; h has the
\* command recorded in the trace.
run_command(h, self, command, path) ==
    IF command.data = "imp"
    THEN NoReturn(
            IF command.children[1].value \in DOMAIN HostModules
            THEN Log(import_module(h, self, command.children[1].value), "import",
                     path, self, command.children[1].value, NoneV)
            ELSE import_module(h, self, command.children[1].value))
    ELSE IF command.data = "function_def"
    THEN NoReturn(eval_function_def(h, self, command, path))
    ELSE IF command.data = "loop"
    THEN eval_loop_command(
            IF command.children[2].children[2].value # "int"
            THEN [h EXCEPT !.out =
                    Append(@, StrV(<<"I cannot loop over a value of type">>))]
            ELSE h,
            IF IsToken(command.children[1]) THEN PyInt(command.children[1].text)
            ELSE Raise("TypeError"),
            self, command, path)
    ELSE IF command.data = "print"
    THEN eval_print_1(eval_expr(h, self, command.children[1], path \o <<1>>))
    ELSE IF command.data = "return"
    THEN eval_return_1(eval_expr(h, self, command.children[1], path \o <<1>>),
                       self, path)
    ELSE IF command.data = "declare"
    THEN eval_declare_1(eval_expr(h, self, command.children[2], path \o <<2>>),
                        self, command.children[1])
    ELSE IF command.data = "if"
    THEN eval_if_1(eval_expr(h, self, command.children[1], path \o <<1>>),
                   self, command, path)
    ELSE IF command.data = "ifelse"
    THEN eval_ifelse_1(eval_expr(h, self, command.children[1], path \o <<1>>),
                       self, command, path)
    ELSE NoReturn(eval_expr(h, self, command, path).h)

eval_command(h, self, tree, ipath) ==
    IF tree.data # "instruction"
    THEN NoReturn([h EXCEPT !.raised = "NameError"])
    ELSE run_command(Log(h, "command", ipath \o <<1>>, self, tree.children[1].data,
                         NoneV),
                     self, tree.children[1], ipath \o <<1>>)

(***************************************************************************)
(* Programs: the trees the parser hands over, built as the grammar builds  *)
(* them (operands wrapped in value nodes, commands in instruction nodes).  *)
(***************************************************************************)
Num(i) == Tree("value", <<Token("NUMBER", "", PyStr(i))>>)
Name(x) == Tree("value", <<Token("NAME", x, <<>>)>>)
Bool(b) == Tree("value", <<Token("BOOLEAN", b, <<>>)>>)
Str(q) == Tree("value", <<Token("STRING", "", <<"\"">> \o q \o <<"\"">>)>>)

BinaryData ==
    [OR |-> "or_expression", AND |-> "and_expression",
     ADD |-> "sum_expression", SUBTRACT |-> "sum_expression",
     MULTIPLY |-> "product_expression", DIVIDE |-> "product_expression",
     ROUNDDIV |-> "product_expression", MODULO |-> "product_expression",
     EXPONENT |-> "exponent_expression",
     EQUALS |-> "compare_expression", NEQUALS |-> "compare_expression",
     NEQUALS_QUIRKY |-> "compare_expression", LESS |-> "compare_expression",
     GREATER |-> "compare_expression", LORE |-> "compare_expression",
     GORE |-> "compare_expression"]

Binary(left, operation, right) ==
    Tree(BinaryData[operation], <<left, Token(operation, "", <<>>), right>>)
Negate(e) == Tree("unary_expression", <<Token("NEGATE", "", <<>>), e>>)
Not(e) == Tree("not_expression", <<Token("NOT", "", <<>>), e>>)
Call(f, args) == Tree("function_callback", <<Tree("call", <<Name(f)>> \o args)>>)
ImportedCommand(l, c, args) ==
    Tree("imported_command",
         <<Token("NAME", l, <<>>), Token("NAME", c, <<>>)>> \o [i \in 1..Len(args) |-> Tree("arg", <<args[i]>>)])

Instruction(command) == Tree("instruction", <<command>>)
NameType(name, type) == Tree("name_type", <<Token("NAME", name, <<>>), Token("NAME", type, <<>>)>>)
Imp(l) == Instruction(Tree("imp", <<Token("NAME", l, <<>>)>>))
PrintCmd(e) == Instruction(Tree("print", <<e>>))
ReturnCmd(e) == Instruction(Tree("return", <<e>>))
Declare(name, type, e) == Instruction(Tree("declare", <<NameType(name, type), e>>))
If(c, body) == Instruction(Tree("if", <<c, body>>))
IfElse(c, if_true, if_false) == Instruction(Tree("ifelse", <<c, if_true, if_false>>))
Loop(times, name, type, code) ==
    Instruction(Tree("loop", <<Token("NUMBER", "", PyStr(times)), NameType(name, type),
                               Tree("code_block", code)>>))
LoopOver(count, name, type, code) ==
    Instruction(Tree("loop", <<count, NameType(name, type), Tree("code_block", code)>>))
Deccall(name, args) ==
    Tree("deccall", <<Token("NAME", name, <<>>)>> \o
         [i \in 1..Len(args) |-> NameType(args[i][1], args[i][2])])
FunctionDef(name, args, returntype, code) ==
    Instruction(Tree("function_def",
        <<Deccall(name, args), Token("NAME", returntype, <<>>), Tree("code_block", code)>>))
FunctionDefDefault(name, args, returntype, code, defaultreturn) ==
    Instruction(Tree("function_def",
        <<Deccall(name, args), Token("NAME", returntype, <<>>), Tree("code_block", code),
          defaultreturn>>))
Start(commands) == Tree("start", commands)

(***************************************************************************)
(* The driver: module level of n.py from the parsed tree on.               *)
(***************************************************************************)
\* global_scope.add_native_function("intInBase10", [("number", "int")], "str", ...)
intInBase10 ==
    [Function(1, <<[name |-> "number", type |-> "int"]>>, "str", NoNode, <<>>,
              NoNode, <<>>) EXCEPT !.native = "intInBase10"]

\* global_scope = Scope(): the default errors and warnings lists are
\* sinks 1 and 2; the native function is its one variable.
global_scope ==
    [Scope(0, 0, 1, 2) EXCEPT
        !.variables = <<[key |-> "intInBase10",
                         val |-> Variable(intInBase10.type, FunV(1))]>>]

\* The objects of the run, as the operators take them.
Heap ==
    [scopes |-> scopes, funcs |-> funcs, sinks |-> sinks, out |-> out,
     trace |-> trace, raised |-> raised, depth |-> 0]

\* The state after the module has built global_scope and parsed run.n.
InitWith(programs) ==
    /\ prog \in programs
    /\ pc = "start"
    /\ idx = 0
    /\ top_scope = 1
    /\ scopes = <<global_scope>>
    /\ funcs = <<intInBase10>>
    /\ sinks = <<<<>>, <<>>>>
    /\ out = <<>>
    /\ trace = <<>>
    /\ raised = ""
    /\ error_count = 0
    /\ warning_count = 0

\* An exception nobody catches ends the process: every action needs
\* raised = "".
SetHeap(h) ==
    /\ scopes' = h.scopes
    /\ funcs' = h.funcs
    /\ sinks' = h.sinks
    /\ out' = h.out
    /\ trace' = h.trace
    /\ raised' = h.raised

\* type_check: scope = global_scope.new_scope(); a tree that is no start
\* node gets one error and no command is checked.
TypeCheckBegin ==
    /\ raised = "" /\ pc = "start"
    /\ LET h == new_scope(Heap, 1, 0)
       IN /\ top_scope' = Len(h.scopes)
          /\ IF prog.data = "start"
             THEN SetHeap(h) /\ idx' = 1
             ELSE /\ SetHeap(AppendError(h, Len(h.scopes), <<>>, "internal_start"))
                  /\ idx' = Len(prog.children) + 1
    /\ pc' = "type_check"
    /\ UNCHANGED <<prog, error_count, warning_count>>

\* type_check: scope.type_check_command(child), for the next child.
TypeCheckCommand ==
    /\ raised = "" /\ pc = "type_check" /\ idx <= Len(prog.children)
    /\ SetHeap(type_check_command(Heap, top_scope, prog.children[idx], <<idx>>).h)
    /\ idx' = idx + 1
    /\ UNCHANGED <<prog, pc, top_scope, error_count, warning_count>>

\* type_check: print the diagnostics (one line of output, that stands for
\* the warnings and then the errors), return the two counts.
TypeCheckEnd ==
    /\ raised = "" /\ pc = "type_check" /\ idx > Len(prog.children)
    /\ out' = Append(out, [t |-> "diagnostics",
                            n |-> Len(sinks[scopes[top_scope].errors]),
                            d |-> Len(sinks[scopes[top_scope].warnings]),
                            q |-> <<>>])
    /\ error_count' = Len(sinks[scopes[top_scope].errors])
    /\ warning_count' = Len(sinks[scopes[top_scope].warnings])
    /\ pc' = "parse_tree"
    /\ UNCHANGED <<prog, idx, top_scope, scopes, funcs, sinks, trace, raised>>

\* parse_tree: scope = global_scope.new_scope(), or SyntaxError.
ParseTreeBegin ==
    /\ raised = "" /\ pc = "parse_tree"
    /\ IF prog.data = "start"
       THEN LET h == new_scope(Heap, 1, 0)
            IN SetHeap(h) /\ top_scope' = Len(h.scopes)
       ELSE SetHeap([Heap EXCEPT !.raised = "SyntaxError"]) /\ top_scope' = top_scope
    /\ idx' = 1
    /\ pc' = "eval"
    /\ UNCHANGED <<prog, error_count, warning_count>>

\* parse_tree: scope.eval_command(child), for the next child; what the
\* command returns is dropped.
EvalCommand ==
    /\ raised = "" /\ pc = "eval" /\ idx <= Len(prog.children)
    /\ SetHeap(eval_command(Heap, top_scope, prog.children[idx], <<idx>>).h)
    /\ idx' = idx + 1
    /\ UNCHANGED <<prog, pc, top_scope, error_count, warning_count>>

\* Report without the test on error_count: the trailing line printed after
\* every run.
ReportAlways ==
    /\ raised = "" /\ pc = "eval" /\ idx > Len(prog.children)
    /\ out' = Append(out, [t |-> "ran_with", n |-> error_count,
                            d |-> warning_count, q |-> <<>>])
    /\ pc' = "done"
    /\ UNCHANGED <<prog, idx, top_scope, scopes, funcs, sinks, trace, raised,
                   error_count, warning_count>>

\* The trailing line, printed only when there were errors.
Report ==
    /\ raised = "" /\ pc = "eval" /\ idx > Len(prog.children)
    /\ out' = IF error_count > 0
              THEN Append(out, [t |-> "ran_with", n |-> error_count,
                                d |-> warning_count, q |-> <<>>])
              ELSE out
    /\ pc' = "done"
    /\ UNCHANGED <<prog, idx, top_scope, scopes, funcs, sinks, trace, raised,
                   error_count, warning_count>>

Next ==
    \/ TypeCheckBegin
    \/ TypeCheckCommand
    \/ TypeCheckEnd
    \/ ParseTreeBegin
    \/ EvalCommand
    \/ Report

(***************************************************************************)
(* The programs of the expression claims: a float variable h = 2 ^ -1,     *)
(* then print E for E over the operator tables.                            *)
(***************************************************************************)
\* The largest integer literal of the generated programs.
MaxNum == 2

Half == Binary(Num(2), "EXPONENT", Negate(Num(1)))

BinaryOperations == DOMAIN BinaryData

Leaves ==
    {Num(i) : i \in 0..MaxNum}
        \cup {Name("h"), Bool("true"), Bool("false"), Str(<<"a">>)}
FewLeaves == {Num(MaxNum), Name("h")}
Numbers == {Num(i) : i \in 0..MaxNum}

Expressions ==
    {Binary(a, op, b) : a \in Leaves, op \in BinaryOperations, b \in Leaves}
        \cup {Negate(a) : a \in Leaves}
        \cup {Not(a) : a \in Leaves}
        \cup {Binary(Binary(a, op1, b), op2, c) :
                a \in FewLeaves, b \in FewLeaves, c \in FewLeaves,
                op1 \in BinaryOperations, op2 \in BinaryOperations}
        \cup {Binary(Binary(Binary(a, op1, b), op2, c), op3, d) :
                a \in Numbers, b \in Numbers, c \in Numbers, d \in Numbers,
                op1 \in {"LESS", "EQUALS", "GORE"},
                op2 \in {"LESS", "EQUALS", "GORE"},
                op3 \in {"LESS", "EQUALS", "GORE"}}

\* Expressions with an operand the checker cannot type: the undefined
\* name z, or an operator expression that is itself a misuse.
UnknownLeaves == {Name("z"), Num(1), Str(<<"a">>)}
UnknownExpressions ==
    {Binary(a, op, b) :
        a \in UnknownLeaves, op \in {"ADD", "OR", "LESS"}, b \in UnknownLeaves}
        \cup {Negate(a) : a \in UnknownLeaves}
        \cup {Not(a) : a \in UnknownLeaves}
        \cup {Negate(Binary(a, "ADD", b)) : a \in UnknownLeaves, b \in UnknownLeaves}
        \cup {Binary(Binary(a, "ADD", b), op, Negate(c)) :
                a \in UnknownLeaves, b \in UnknownLeaves, c \in UnknownLeaves,
                op \in {"MULTIPLY", "LESS"}}
        \cup {Binary(Binary(Num(0), "LESS", Binary(a, "ADD", b)), "LESS", Num(2)) :
                a \in UnknownLeaves, b \in UnknownLeaves}

ExprPrograms ==
    {Start(<<Declare("h", "float", Half), PrintCmd(e)>>) :
        e \in Expressions \cup UnknownExpressions}

SpecExpr == InitWith(ExprPrograms) /\ [][Next]_vars

\* The expression a program of this family prints, and where it is.
PrintedExpr == prog.children[Len(prog.children)].children[1].children[1]
PrintedPath == <<Len(prog.children), 1, 1>>

\* The heap the module starts the check pass with.
Heap0 ==
    [scopes |-> <<global_scope>>, funcs |-> <<intInBase10>>,
     sinks |-> <<<<>>, <<>>>>, out |-> <<>>, trace |-> <<>>, raised |-> "",
     depth |-> 0]

\* The type type_check_expr returns for the printed expression, in the
\* check scope after the declaration before it.
CheckedType ==
    type_check_expr(
        type_check_command(new_scope(Heap0, 1, 0), 2, prog.children[1], <<1>>).h,
        2, PrintedExpr, PrintedPath).ty

\* C1: for a well-typed expression over the operator tables (no error is
\* reported and the checker gives it a type), the type type_check_expr
\* returns is the host type (int, float, bool, str) of the value eval_expr
\* returns, which print wrote as the second line of output.
C1_TypeAgreement ==
    (pc = "done" /\ error_count = 0 /\ CheckedType # TNone)
        => Prim(out[2].t) = CheckedType

\* The well-typed division 2 / 2: checked int, evaluated to the float 1.0.
C1_IntDivisionIsFloat ==
    /\ pc = "done" /\ error_count = 0
    /\ PrintedExpr = Binary(Num(2), "DIVIDE", Num(2))
    /\ CheckedType = Prim("int")
    /\ out[2] = FloatV(1, 1)

IsPrefix(p, q) == Len(p) <= Len(q) /\ SubSeq(q, 1, Len(p)) = p

\* No token under the node at p was evaluated.
NotEvaluated(p) ==
    \A i \in 1..Len(trace) : trace[i].kind = "value" => ~IsPrefix(p, trace[i].node)

IsChain(e) ==
    /\ ~IsToken(e) /\ e.data = "compare_expression"
    /\ ~IsToken(e.children[1]) /\ e.children[1].data = "compare_expression"

\* The value of an operand of a link, in the scope the program ran in.
OperandValue(e) == eval_expr(Heap, top_scope, e, <<>>).v

\* a OP b on the operands' values.
LinkHolds(a, comparison, b) ==
    PyCompare(comparison, OperandValue(a), OperandValue(b)).v = BoolV(TRUE)

\* Every adjacent link of the left-leaning chain e holds.
RECURSIVE ChainHolds(_)
ChainHolds(e) ==
    IF IsChain(e)
    THEN /\ ChainHolds(e.children[1])
         /\ LinkHolds(e.children[1].children[3], e.children[2].type, e.children[3])
    ELSE LinkHolds(e.children[1], e.children[2].type, e.children[3])

\* At the chain e (at p) and at every chain to its left: a false left
\* sub-chain leaves the right operand unevaluated.
RECURSIVE ShortCircuits(_, _)
ShortCircuits(e, p) ==
    IsChain(e) =>
        /\ ~ChainHolds(e.children[1]) => NotEvaluated(p \o <<3>>)
        /\ ShortCircuits(e.children[1], p \o <<1>>)

\* C9: a comparison chain (a OP1 b) OP2 c, and any longer left-leaning
\* chain, evaluates to true exactly when every adjacent link holds, and
\* when the left sub-chain is false the rightmost operand is not evaluated.
C9_ChainIsConjunction ==
    (pc = "done" /\ IsChain(PrintedExpr))
        => /\ out[2] = BoolV(ChainHolds(PrintedExpr))
           /\ ShortCircuits(PrintedExpr, PrintedPath)

\* A three-link chain whose left sub-chain is false and whose last link
\* alone would hold: the result is false.
C9_ShortCircuited ==
    /\ pc = "done" /\ IsChain(PrintedExpr) /\ IsChain(PrintedExpr.children[1])
    /\ ~ChainHolds(PrintedExpr.children[1])
    /\ LinkHolds(PrintedExpr.children[1].children[3], PrintedExpr.children[2].type,
                 PrintedExpr.children[3])
    /\ out[2] = BoolV(FALSE)

(***************************************************************************)
(* The programs of the checker claims: blocks of commands at the top       *)
(* level, in a loop and in a function body, and if / if-else commands      *)
(* over the simple commands.                                               *)
(***************************************************************************)
\* The longest block of the generated programs.
MaxBody == 3

True == Bool("true")
DeclareX == Declare("x", "int", Num(1))
PrintZ == PrintCmd(Name("z"))
Return1 == ReturnCmd(Num(1))
ImportNoLib == Imp("nolib")

Simple == {DeclareX, PrintZ, Return1, ImportNoLib}

Branches ==
    {If(True, s) : s \in Simple}
        \cup {IfElse(True, s1, s2) : s1 \in Simple, s2 \in Simple}

BodyCommands ==
    {DeclareX, PrintZ, Return1,
     IfElse(True, Return1, PrintZ), IfElse(True, PrintZ, Return1),
     Loop(1, "i", "int", <<Return1>>)}

Blocks == UNION {[1..n -> BodyCommands] : n \in 1..MaxBody}

\* z < z < z, every operand undefined.
UndefinedChain ==
    Binary(Binary(Name("z"), "LESS", Name("z")), "LESS", Name("z"))

\* Default returns of f(x: int) -> int that refer to the parameter, call f
\* itself, or neither.
DefaultReturns ==
    {Name("x"), Binary(Name("x"), "ADD", Num(1)), Call("f", <<Name("x")>>),
     Num(0)}

PrintF1 == PrintCmd(Call("f", <<Num(1)>>))

DefaultReturnPrograms ==
    {Start(<<FunctionDefDefault("f", <<<<"x", "int">>>>, "int", <<>>, d)>> \o t) :
        d \in DefaultReturns, t \in {<<>>, <<PrintF1>>}}

CheckPrograms ==
    {Start(<<c>>) : c \in Simple \cup Branches}
        \cup DefaultReturnPrograms
        \cup {Start(<<DeclareX, c>>) : c \in Branches}
        \cup {Start(b) : b \in Blocks}
        \cup {Start(<<Loop(1, "i", "int", b)>>) : b \in Blocks}
        \cup {Start(<<FunctionDef("f", <<>>, "int", b)>>) : b \in Blocks}
        \cup {Start(<<FunctionDefDefault("f", <<>>, "int", b, Num(0))>>) :
                b \in Blocks}
        \cup {Start(<<DeclareX, FunctionDef("x", <<>>, "int", <<Return1>>)>>),
              Start(<<FunctionDef("f", <<<<"x", "int">>>>, "int",
                                  <<DeclareX, Return1>>)>>),
              Start(<<IfElse(True,
                             FunctionDef("f", <<>>, "int", <<Return1, PrintZ>>),
                             PrintZ)>>),
              Start(<<PrintCmd(UndefinedChain)>>),
              Start(<<Imp("math"), PrintCmd(Call("x", <<>>))>>),
              Start(<<DeclareX, PrintCmd(Call("x", <<Num(1)>>))>>)}

SpecCheck == InitWith(CheckPrograms) /\ [][Next]_vars

\* The check pass has run to completion.
Checked_ == pc \in {"parse_tree", "eval", "done"}

\* The diagnostics of a rule in the shared sinks, as the nodes they name.
RuleNodes(sink, rule) ==
    {sinks[sink][i].node : i \in {j \in 1..Len(sinks[sink]) : sinks[sink][j].rule = rule}}
RuleCount(sink, rule) ==
    Cardinality({j \in 1..Len(sinks[sink]) : sinks[sink][j].rule = rule})

\* The scope type_check checks the top-level commands in, before any.
CheckScope == new_scope(Heap0, 1, 0)

\* Whether type_check_command reports an exit point for the command.
ReportsExit(command) ==
    type_check_command(CheckScope, 2, command, <<1>>).exit # <<>>

IsIfElse(instruction) == instruction.children[1].data = "ifelse"

\* The if-else commands of the program, at the top level or in the block
\* of a top-level loop or function definition.
RECURSIVE IfElses(_)
IfElses(block) ==
    UNION {IF IsIfElse(block[k]) THEN {block[k]}
           ELSE IF block[k].children[1].data \in {"loop", "function_def"}
           THEN IfElses(block[k].children[1].children[3].children)
           ELSE {} : k \in 1..Len(block)}

\* C2: type_check_command reports an exit point for an if-else command
\* if and only if both its true branch and its false branch have exit
\* points.
C2_IfElseExitPoint ==
    Checked_ =>
        \A c \in IfElses(prog.children) :
            ReportsExit(c) <=> (/\ ReportsExit(c.children[1].children[2])
                                /\ ReportsExit(c.children[1].children[3]))

\* An if-else whose true branch returns and whose false branch prints is
\* reported as an exit point: in a function body the command after it
\* draws the warning, which names the if-else.
C2_TrueBranchAloneExits ==
    /\ Checked_
    /\ prog = Start(<<FunctionDef("f", <<>>, "int",
                                  <<IfElse(True, Return1, PrintZ), PrintZ>>)>>)
    /\ RuleNodes(2, "commands_after_return") = {<<1, 1, 3, 1, 1>>}

\* Whether the checker takes the command for an exit point: a return, a
\* loop with an exit point in its body, an if-else whose true branch is
\* one.
RECURSIVE ExitPoint(_)
ExitPoint(instruction) ==
    LET command == instruction.children[1]
    IN IF command.data = "return" THEN TRUE
       ELSE IF command.data = "loop"
       THEN \E k \in 1..Len(command.children[3].children) :
                ExitPoint(command.children[3].children[k])
       ELSE IF command.data = "ifelse" THEN ExitPoint(command.children[2])
       ELSE FALSE

\* The first exit point of a block, 0 when it has none.
FirstExit(block) ==
    IF \E k \in 1..Len(block) : ExitPoint(block[k])
    THEN CHOOSE k \in 1..Len(block) :
            ExitPoint(block[k]) /\ \A j \in 1..(k - 1) : ~ExitPoint(block[j])
    ELSE 0

\* The node the exit point of the instruction at ipath names.
RECURSIVE ExitNode(_, _)
ExitNode(instruction, ipath) ==
    LET command == instruction.children[1]
    IN IF command.data = "loop"
       THEN ExitNode(command.children[3].children[FirstExit(command.children[3].children)],
                     ipath \o <<1, 3, FirstExit(command.children[3].children)>>)
       ELSE ipath \o <<1>>

\* The warnings one check of the instruction at ipath appends, as pairs
\* <<node, number of times>>: one for a function body with a command after
\* its first exit point, and those of the commands inside; the true branch
\* of an if-else counts twice and its false branch not at all.
RECURSIVE AfterReturn(_, _, _)
RECURSIVE AfterReturnBlock(_, _, _)
AfterReturnBlock(block, bpath, times) ==
    UNION {AfterReturn(block[k], bpath \o <<k>>, times) : k \in 1..Len(block)}

AfterReturn(instruction, ipath, times) ==
    LET command == instruction.children[1]
        body == command.children[3].children
    IN IF command.data = "function_def"
       THEN (IF FirstExit(body) # 0 /\ FirstExit(body) < Len(body)
             THEN {<<ExitNode(body[FirstExit(body)],
                              ipath \o <<1, 3, FirstExit(body)>>), times>>}
             ELSE {})
            \cup AfterReturnBlock(body, ipath \o <<1, 3>>, times)
       ELSE IF command.data = "loop"
       THEN AfterReturnBlock(body, ipath \o <<1, 3>>, times)
       ELSE IF command.data = "if"
       THEN AfterReturn(command.children[2], ipath \o <<1, 2>>, times)
       ELSE IF command.data = "ifelse"
       THEN AfterReturn(command.children[2], ipath \o <<1, 2>>, 2 * times)
       ELSE {}

\* How many times the warning names the node.
WarnedTimes(node) ==
    Cardinality({j \in 1..Len(sinks[2]) :
                    sinks[2][j] = TypeCheckError(node, "commands_after_return")})

\* C3 (as the code has it): each check of a function definition appends
\* exactly one "commands after this return" warning, naming the body's
\* first exit point, when at least one command follows that exit point,
\* however many follow, and none when nothing follows it; a loop body and
\* the top-level sequence draw no such warning of their own.
C3_OneWarningPerFunctionBody ==
    Checked_ =>
        /\ RuleNodes(2, "commands_after_return")
              = {w[1] : w \in AfterReturnBlock(prog.children, <<>>, 1)}
        /\ \A w \in AfterReturnBlock(prog.children, <<>>, 1) :
              WarnedTimes(w[1]) = w[2]

\* A function body with two commands after its return: one warning.
C3_TwoCommandsAfterReturn ==
    /\ Checked_
    /\ prog = Start(<<FunctionDef("f", <<>>, "int", <<Return1, PrintZ, PrintZ>>)>>)
    /\ WarnedTimes(<<1, 1, 3, 1, 1>>) = 1
    /\ RuleCount(2, "commands_after_return") = 1

\* The blocks of a program in which a command follows a return command:
\* function bodies, loop bodies and the top-level sequence.
RECURSIVE ReturnFollowed(_, _)
ReturnFollowed(block, bpath) ==
    (IF \E k \in 1..(Len(block) - 1) : block[k].children[1].data = "return"
     THEN {bpath} ELSE {})
    \cup UNION {LET command == block[k].children[1]
                IN IF command.data \in {"function_def", "loop"}
                   THEN ReturnFollowed(command.children[3].children,
                                       bpath \o <<k, 1, 3>>)
                   ELSE IF command.data = "if"
                   THEN ReturnFollowed(<<command.children[2]>>, bpath \o <<k, 1>>)
                   ELSE IF command.data = "ifelse"
                   THEN ReturnFollowed(<<command.children[2]>>, bpath \o <<k, 1>>)
                        \cup ReturnFollowed(<<command.children[3]>>, bpath \o <<k, 1>>)
                   ELSE {} : k \in 1..Len(block)}

\* C3 as claimed: every block (function body, loop body, top-level
\* sequence) with a command after a return draws exactly one warning, and
\* a block without one draws none.
C3_OneWarningPerBlock ==
    Checked_ =>
        RuleCount(2, "commands_after_return")
            = Cardinality(ReturnFollowed(prog.children, <<>>))

\* C4: after a complete check pass neither shared sink holds two
\* diagnostics of the same rule for the same node.
C4_NoDuplicateDiagnostics ==
    Checked_ =>
        \A s \in {1, 2} : \A i, j \in 1..Len(sinks[s]) :
            i < j => sinks[s][i] # sinks[s][j]

\* The undefined name in the true branch of an if-else is reported twice.
C4_TrueBranchReportedTwice ==
    /\ Checked_
    /\ prog = Start(<<IfElse(True, PrintZ, PrintZ)>>)
    /\ sinks[1] = <<TypeCheckError(<<1, 1, 2, 1, 1, 1>>, "undefined"),
                    TypeCheckError(<<1, 1, 2, 1, 1, 1>>, "undefined")>>

\* C5: the check pass never raises: whatever the program, every top-level
\* command is checked and problems are only recorded in the sinks.
C5_CheckPassCompletes == pc \in {"start", "type_check"} => raised = ""

\* The import of a library the host cannot load ends the check pass.
C5_ImportRaises ==
    /\ pc = "type_check"
    /\ prog = Start(<<ImportNoLib>>)
    /\ raised = "ModuleNotFoundError"

\* The name tokens a check flags when every function body, if body, else
\* body and loop body is a child scope with a mapping of its own: own is
\* the set of names bound so far in the scope of the instruction.
RECURSIVE Redefined(_, _, _)
RECURSIVE RedefinedBlock(_, _, _, _)
RedefinedBlock(block, bpath, k, own) ==
    IF k > Len(block) THEN {}
    ELSE Redefined(block[k], bpath \o <<k>>, own)
            \cup RedefinedBlock(
                    block, bpath, k + 1,
                    IF block[k].children[1].data \in {"declare", "function_def"}
                    THEN own \cup {block[k].children[1].children[1].children[1].value}
                    ELSE own)

Redefined(instruction, ipath, own) ==
    LET command == instruction.children[1]
        name == command.children[1].children[1]
        flagged == IF name.value \in own THEN {ipath \o <<1, 1, 1>>} ELSE {}
    IN IF command.data = "declare" THEN flagged
       ELSE IF command.data = "function_def"
       THEN flagged
            \cup RedefinedBlock(command.children[3].children, ipath \o <<1, 3>>, 1,
                                {command.children[1].children[i].children[1].value :
                                    i \in 2..Len(command.children[1].children)})
       ELSE IF command.data = "loop"
       THEN RedefinedBlock(command.children[3].children, ipath \o <<1, 3>>, 1,
                           {command.children[2].children[1].value})
       ELSE IF command.data = "if"
       THEN Redefined(command.children[2], ipath \o <<1, 2>>, {})
       ELSE IF command.data = "ifelse"
       THEN Redefined(command.children[2], ipath \o <<1, 2>>, {})
            \cup Redefined(command.children[3], ipath \o <<1, 3>>, {})
       ELSE {}

\* The type the last of the first k top-level bindings of the name gives
\* it, TNone when none binds it.
RECURSIVE LastBinding(_, _, _)
LastBinding(block, k, name) ==
    IF k = 0 THEN TNone
    ELSE
    LET command == block[k].children[1]
    IN IF command.data = "declare" /\ command.children[1].children[1].value = name
       THEN Prim(command.children[1].children[2].value)
       ELSE IF command.data = "function_def"
               /\ command.children[1].children[1].value = name
       THEN FunctionOf(2, command, <<k, 1>>).type
       ELSE LastBinding(block, k - 1, name)

\* C7: a declare or function definition draws "already defined" exactly
\* when the name is already bound in the mapping of its own scope, every
\* function body, if body, else body and loop body being a child scope;
\* and the top-level scope stores the later binding of a name.
C7_AlreadyDefinedExactly ==
    Checked_ =>
        /\ RuleNodes(1, "already_defined")
              = RedefinedBlock(prog.children, <<>>, 1, {})
        /\ \A i \in 1..Len(scopes[2].variables) :
              scopes[2].variables[i].val.type
                  = LastBinding(prog.children, Len(prog.children),
                                scopes[2].variables[i].key)

\* A name bound at the top level and declared again in an if body is
\* reported, although the if body is a scope of its own.
C7_IfBodyNotAScope ==
    /\ Checked_
    /\ prog = Start(<<DeclareX, If(True, DeclareX)>>)
    /\ RuleNodes(1, "already_defined") = {<<2, 1, 2, 1, 1, 1>>}

(***************************************************************************)
(* The programs of the evaluator claims: import math and x = 1 at the top  *)
(* level, then a command with a body of its own (if, if-else, loop) or a   *)
(* function f with a block for a body and the default return x, called     *)
(* once; then print x.                                                     *)
(***************************************************************************)
\* The largest repeat count of a generated loop.
MaxTimes == 2

False == Bool("false")
PrintX == PrintCmd(Name("x"))
Inner2 == Declare("x", "int", Num(2))
DeclareInc == Declare("x", "int", Binary(Name("x"), "ADD", Num(1)))
ReturnX == ReturnCmd(Name("x"))
Return7 == ReturnCmd(Num(7))
Return8 == ReturnCmd(Num(8))
PrintFsum == PrintCmd(ImportedCommand("math", "fsum", <<Num(1), Num(2)>>))

\* loop MaxTimes times: return i in the turn where i = 1.
LoopReturn ==
    Loop(MaxTimes, "i", "int",
         <<If(Binary(Name("i"), "EQUALS", Num(1)), ReturnCmd(Name("i")))>>)

EvalCommands ==
    {PrintX, Inner2, ReturnX, If(True, Return7), If(False, Return7),
     IfElse(False, PrintX, Return8), LoopReturn, PrintFsum}

EvalBlocks == UNION {[1..n -> EvalCommands] : n \in 1..MaxBody}

ScopedSimple == {Inner2, DeclareInc, PrintX, PrintFsum}

ScopedCommands ==
    {If(c, s) : c \in {True, False}, s \in ScopedSimple}
        \cup {IfElse(c, s1, s2) :
                c \in {True, False}, s1 \in ScopedSimple, s2 \in ScopedSimple}
        \cup {Loop(n, v, "int", <<s1, s2>>) :
                n \in 0..MaxTimes, v \in {"i", "x"},
                s1 \in ScopedSimple, s2 \in ScopedSimple}

\* Loops over a count that is a literal, a variable and a compound
\* expression, each of type int, as a bare token and as a value node.
PrintI == PrintCmd(Name("i"))
Counts ==
    {Token("NUMBER", "", PyStr(2)), Num(2), Token("NAME", "x", <<>>), Name("x"),
     Binary(Num(1), "ADD", Num(1)), Binary(Name("x"), "ADD", Name("x"))}
LoopPrograms ==
    {Start(<<DeclareX, LoopOver(c, "i", "int", b), PrintX>>) :
        c \in Counts, b \in {<<>>, <<PrintI>>, <<PrintI, Inner2>>}}

EvalPrograms ==
    LoopPrograms \cup
    {Start(<<Imp("math"), DeclareX,
             FunctionDefDefault("f", <<>>, "int", b, Name("x")),
             PrintCmd(Call("f", <<>>)), PrintX>>) : b \in EvalBlocks}
        \cup {Start(<<Imp("math"), DeclareX, c, PrintX>>) : c \in ScopedCommands}
        \cup {Start(<<Imp("math"), PrintFsum>>),
              Start(<<FunctionDef("f", <<>>, "int",
                                  <<ReturnCmd(Call("f", <<>>))>>),
                      PrintCmd(Call("f", <<>>))>>),
              Start(<<FunctionDef("f", <<>>, "int", <<PrintCmd(Num(1))>>),
                      PrintCmd(Call("f", <<>>))>>),
              Start(<<DeclareX,
                      FunctionDefDefault("f", <<<<"x", "int">>>>, "int",
                                         <<PrintX, Inner2>>, Name("x")),
                      PrintCmd(Call("f", <<Num(2)>>)), PrintX>>),
              Start(<<DeclareX,
                      FunctionDefDefault("f", <<<<"x", "int">>>>, "int",
                                         <<PrintX>>, Name("x")),
                      PrintCmd(Call("f", <<>>))>>)}


Init == InitWith(EvalPrograms)
Spec == Init /\ [][Next]_vars

\* The entries of the trace of a kind.
Entries(kind) == {i \in 1..Len(trace) : trace[i].kind = kind}

Max(S) == CHOOSE m \in S : \A n \in S : n <= m
Min(S) == CHOOSE m \in S : \A n \in S : m <= n

\* C6: an imported-command call finds the namespace of every import that
\* ran before it, in whatever scope the call sits.
C6_ImportVisible ==
    \A i \in Entries("find_import") :
        (\E j \in Entries("import") : j < i /\ trace[j].name = trace[i].name)
            => trace[i].v = BoolV(TRUE)

\* math is imported at the top level; the call in a nested scope does not
\* find it and raises.
C6_NestedCallMissesImport ==
    /\ raised = "SyntaxError"
    /\ \E i \in Entries("find_import") :
        /\ trace[i].v = BoolV(FALSE)
        /\ trace[i].scope # top_scope
        /\ \E j \in Entries("import") :
            j < i /\ trace[j].name = trace[i].name /\ trace[j].scope = top_scope

\* The bindings of the name made in scope s before entry i of the trace.
BindsBefore(s, name, i) ==
    {j \in Entries("bind") : j < i /\ trace[j].scope = s /\ trace[j].name = name}

\* The binding a lookup of the name from scope s sees at entry i: the
\* latest one of the nearest scope, from s outwards, that has bound the
\* name; 0 when no such scope has.
RECURSIVE Visible(_, _, _)
Visible(s, name, i) ==
    IF s = 0 THEN 0
    ELSE IF BindsBefore(s, name, i) # {} THEN Max(BindsBefore(s, name, i))
    ELSE Visible(scopes[s].parent, name, i)

\* s is a scope inside p.
RECURSIVE Inside(_, _)
Inside(s, p) ==
    s # 0 /\ scopes[s].parent # 0
        /\ (scopes[s].parent = p \/ Inside(scopes[s].parent, p))

\* C8: a name bound in a child scope resolves to the inner binding for
\* the lookups that start in the child, and the enclosing scope keeps its
\* own variable, type and value, whatever its children bound: every read
\* of a name returns the value of the latest binding of the nearest scope
\* that has one, and every scope stores its own latest binding.
C8_ShadowingResolves ==
    /\ \A i \in Entries("value") :
          (trace[i].name # "" /\ Visible(trace[i].scope, trace[i].name, i) # 0)
              => trace[i].v
                    = trace[Visible(trace[i].scope, trace[i].name, i)].v.value
    /\ \A j \in Entries("bind") :
          DictGet(scopes[trace[j].scope].variables, trace[j].name)
              = trace[Max(BindsBefore(trace[j].scope, trace[j].name,
                                      Len(trace) + 1))].v

\* x is bound to 1 outside and to another value in a scope inside; a read
\* inside gives the inner value and a later read outside gives 1.
C8_InnerThenOuter ==
    /\ pc = "done"
    /\ \E o \in Entries("bind"), n \in Entries("bind") :
        /\ o < n /\ trace[o].name = "x" /\ trace[n].name = "x"
        /\ Inside(trace[n].scope, trace[o].scope)
        /\ trace[o].v.value # trace[n].v.value
        /\ \E r \in Entries("value"), q \in Entries("value") :
            /\ n < r /\ r < q
            /\ trace[r].name = "x" /\ trace[r].scope = trace[n].scope
            /\ trace[r].v = trace[n].v.value
            /\ trace[q].name = "x" /\ trace[q].scope = trace[o].scope
            /\ trace[q].v = trace[o].v.value

\* The call whose scope is s: where it starts in the trace.
CallOf(s) == CHOOSE i \in Entries("call") : trace[i].scope = s

\* The entries of a kind that belong to the call that returned at entry j
\* (and not to a call made inside it).
Within(j, kind) ==
    {k \in Entries(kind) :
        CallOf(trace[j].scope) < k /\ k < j /\ trace[k].depth = trace[j].depth}

\* The commands of the call's body itself, as indices into the body.
BodyCommandsOf(j) ==
    {k \in Within(j, "command") : Len(trace[k].node) = Len(trace[j].node) + 2}

\* C10: a call runs the commands of the body in order; its result is the
\* value of the first return it executes, at any depth of loop, if and
\* if-else bodies, and no command of the call runs after that return; with
\* no return executed the whole body runs and the result is the value of
\* the default return, evaluated in the scope of the call.
C10_FirstReturnIsResult ==
    \A j \in Entries("result") :
        /\ \A k \in BodyCommandsOf(j) :
              trace[k].node[Len(trace[j].node) + 1]
                  = Cardinality({m \in BodyCommandsOf(j) : m <= k})
        /\ IF Within(j, "return") # {}
           THEN /\ trace[j].v = trace[Min(Within(j, "return"))].v
                /\ Min(Within(j, "return")) = j - 1
                /\ Within(j, "default") = {}
           ELSE /\ Within(j, "default") = {j - 1}
                /\ trace[j].v = trace[j - 1].v
                /\ Cardinality(BodyCommandsOf(j))
                      = Len(funcs[trace[CallOf(trace[j].scope)].v.n].codeblock.children)
                /\ \A r \in Within(j, "value") :
                      IsPrefix(trace[j - 1].node, trace[r].node)
                          => trace[r].scope = trace[j].scope

\* f's body is a loop that returns i = 1 in its second turn, then a
\* print: the call gives 1 and the print after the loop does not run.
C10_ReturnInsideLoop ==
    /\ pc = "done"
    /\ prog = Start(<<Imp("math"), DeclareX,
                      FunctionDefDefault("f", <<>>, "int", <<LoopReturn, PrintX>>,
                                         Name("x")),
                      PrintCmd(Call("f", <<>>)), PrintX>>)
    /\ SubSeq(out, 2, Len(out)) = <<IntV(1), IntV(1)>>
    /\ \E j \in Entries("result") :
          /\ trace[j].v = IntV(1)
          /\ Cardinality(BodyCommandsOf(j)) = 1

\* The node of the program at a path.
RECURSIVE NodeAt(_, _)
NodeAt(node, path) ==
    IF path = <<>> THEN node ELSE NodeAt(node.children[Head(path)], Tail(path))

\* The loop commands the evaluator started, as entries of the trace.
Loops == {j \in Entries("command") : trace[j].name = "loop"}

\* Where the command after loop j in the same scope starts, or the end of
\* the trace.
NextSibling(j) ==
    Min({k \in Entries("command") : k > j /\ trace[k].scope = trace[j].scope}
            \cup {Len(trace) + 1})

\* The turns of loop j: the bindings of its induction variable, each the
\* first thing that happens in a child scope of the loop's scope.
Turns(j) ==
    {k \in Entries("bind") :
        /\ j < k /\ k < NextSibling(j)
        /\ trace[k].depth = trace[j].depth
        /\ scopes[trace[k].scope].parent = trace[j].scope
        /\ trace[k].name = NodeAt(prog, trace[j].node).children[2].children[1].value
        /\ \A m \in 1..(k - 1) : trace[m].scope # trace[k].scope}

\* The heap as the loop's scope has it, with nothing propagating.
Calm == [Heap EXCEPT !.raised = ""]

\* The type the checker gives the count of loop j and the value the
\* evaluator gives it, in the loop's scope.
CountType(j) ==
    type_check_expr(Calm, trace[j].scope, NodeAt(prog, trace[j].node).children[1],
                    trace[j].node \o <<1>>).ty
CountValue(j) ==
    eval_expr(Calm, trace[j].scope, NodeAt(prog, trace[j].node).children[1],
              trace[j].node \o <<1>>)

\* Loop j is judged when its count is an int N >= 0 and nothing cut it
\* short: no return inside it, and no exception other than one the loop
\* command raised itself before its first turn.
Judged(j) ==
    /\ CountType(j) = Prim("int")
    /\ CountValue(j).h.raised = ""
    /\ CountValue(j).v.t = "int" /\ CountValue(j).v.n >= 0
    /\ \A r \in Entries("return") :
          ~(j < r /\ r < NextSibling(j) /\ trace[r].depth = trace[j].depth)
    /\ raised # "" => (Turns(j) = {} /\ Max(Entries("command")) = j)

\* C11: a loop whose count has type int and value N >= 0, be it a
\* literal, a variable or a compound expression, runs its body exactly N
\* times, the induction variable bound to 0, 1, ..., N-1 in that order,
\* each turn in a fresh child scope of the loop's scope.
C11_LoopRunsCountTimes ==
    \A j \in Loops :
        Judged(j) =>
            /\ Cardinality(Turns(j)) = CountValue(j).v.n
            /\ \A k \in Turns(j) :
                  /\ trace[k].v.value
                        = IntV(Cardinality({m \in Turns(j) : m < k}))
                  /\ Cardinality({c \in Entries("command") :
                                    trace[c].scope = trace[k].scope})
                        = Len(NodeAt(prog, trace[j].node).children[3].children)
            /\ \A k, m \in Turns(j) : k # m => trace[k].scope # trace[m].scope

\* The count 1 + 1 has type int and value 2; the loop command raises
\* TypeError before its first turn.
C11_CompoundCountRaises ==
    /\ prog = Start(<<DeclareX,
                      LoopOver(Binary(Num(1), "ADD", Num(1)), "i", "int", <<PrintI>>),
                      PrintX>>)
    /\ error_count = 0
    /\ raised = "TypeError"
    /\ \E j \in Loops :
          /\ CountType(j) = Prim("int") /\ CountValue(j).v = IntV(2)
          /\ Turns(j) = {}

\* The same claim for the loops whose count is a NUMBER token.
C11_LiteralCountRuns ==
    \A j \in Loops :
        (Judged(j) /\ NodeAt(prog, trace[j].node).children[1].type = "NUMBER")
            => /\ Cardinality(Turns(j)) = CountValue(j).v.n
               /\ \A k \in Turns(j) :
                     trace[k].v.value = IntV(Cardinality({m \in Turns(j) : m < k}))
\* The heap of the check pass when it reaches the printed expression.
CheckHeap ==
    type_check_command(new_scope(Heap0, 1, 0), 2, prog.children[1], <<1>>).h

\* The type type_check_expr returns for the expression e at path p.
TypeOf(e, p) == type_check_expr(CheckHeap, 2, e, p).ty

\* The sub-expressions of e at path p, e included, as <<node, path>>.
RECURSIVE SubExprs(_, _)
SubExprs(e, p) ==
    {<<e, p>>} \cup
        UNION {SubExprs(e.children[i], p \o <<i>>) :
                i \in {k \in 1..Len(e.children) : ~IsToken(e.children[k])}}

\* e applies an operator of the unary or of the binary table.
IsOperator(e) ==
    \/ /\ Len(e.children) = 2 /\ IsToken(e.children[1])
       /\ e.children[1].type \in DOMAIN unary_operation_types
    \/ /\ Len(e.children) = 3 /\ IsToken(e.children[2])
       /\ e.children[2].type \in DOMAIN binary_operation_types

\* The operands of an operator expression, as <<node, path>>.
Operands(e, p) ==
    IF Len(e.children) = 2 THEN {<<e.children[2], p \o <<2>>>>}
    ELSE {<<e.children[1], p \o <<1>>>>, <<e.children[3], p \o <<3>>>>}

\* The operator sub-expressions of the printed expression.
Operators == {n \in SubExprs(PrintedExpr, PrintedPath) : IsOperator(n[1])}

AllKnown(n) == \A o \in Operands(n[1], n[2]) : TypeOf(o[1], o[2]) # TNone

\* C12: an operator expression with an operand of unknown type has the
\* unknown type itself and draws no "I don't know how to use" error, and
\* the errors of that rule in the shared sink are never more than the
\* operator sub-expressions whose operands are all of known type.
C12_UnknownPropagates ==
    Checked_ =>
        /\ \A n \in Operators :
              ~AllKnown(n) =>
                  /\ TypeOf(n[1], n[2]) = TNone
                  /\ n[2] \notin RuleNodes(1, "operator_misuse")
        /\ RuleCount(1, "operator_misuse")
              <= Cardinality({n \in Operators : AllKnown(n)})

\* (z + "a") * -1 with z undefined: the sum is unknown, so is the product,
\* and the one error of the check pass is the undefined name.
C12_UndefinedOperand ==
    /\ Checked_
    /\ PrintedExpr = Binary(Binary(Name("z"), "ADD", Str(<<"a">>)), "MULTIPLY",
                            Negate(Num(1)))
    /\ TypeOf(PrintedExpr, PrintedPath) = TNone
    /\ sinks[1] = <<TypeCheckError(PrintedPath \o <<1, 1, 1>>, "undefined")>>

(***************************************************************************)
(* C13: the driver                                                         *)
(***************************************************************************)

\* The driver is one sequential thread: whenever a step is possible it is
\* taken.  This is WF_vars(Next) spelled out: a step is possible exactly
\* when the run has neither ended nor raised.
FairSpecCheck == SpecCheck /\ ([]<>(pc = "done" \/ raised # "") \/ []<><<Next>>_vars)

\* The trailing lines of the output.
RanWith == {i \in 1..Len(out) : out[i].t = "ran_with"}

\* The line type_check prints when the check pass ends, with its counts.
DiagnosticsLine ==
    [t |-> "diagnostics", n |-> error_count, d |-> warning_count, q |-> <<>>]

\* The check pass comes first: nothing is evaluated and no line is printed
\* before it ends, and its counts are those of the two sinks it filled.
CheckPassFirst ==
    /\ pc \in {"start", "type_check"} => trace = <<>> /\ out = <<>>
    /\ pc = "parse_tree" => trace = <<>> /\ out = <<DiagnosticsLine>>
    /\ pc \in {"eval", "done"} =>
        /\ out # <<>> /\ out[1] = DiagnosticsLine
        /\ error_count = Len(sinks[1])
        /\ warning_count = Len(sinks[2])

\* Every top-level instruction has had its command evaluated.
AllEvaluated ==
    \A i \in 1..Len(prog.children) :
        \E c \in Entries("command") : trace[c].node = <<i, 1>>

\* C13 as the source has it: the check pass runs first; once it has ended
\* the evaluator runs whatever the number of errors, to the end of the
\* program or to the exception it raises; and when evaluation has finished
\* the output ends with one trailing line carrying the counts of the check
\* pass exactly when the check pass found at least one error, and has no
\* trailing line at all when it found none.
C13_CheckThenEvalThenReport ==
    /\ [](/\ CheckPassFirst
          /\ pc # "done" => RanWith = {}
          /\ pc = "done" =>
              /\ AllEvaluated
              /\ IF error_count > 0
                 THEN /\ RanWith = {Len(out)}
                      /\ out[Len(out)].n = error_count
                      /\ out[Len(out)].d = warning_count
                 ELSE RanWith = {})
    /\ (pc = "parse_tree" /\ error_count >= 0)
          ~> ((pc = "done" /\ AllEvaluated) \/ raised # "")

\* C13, a run the check pass found an error in: both top-level commands are
\* evaluated and the output ends with the trailing line.
C13_ErrorsThenRanWith ==
    /\ prog = Start(<<DeclareX, DeclareX>>)
    /\ pc = "done" /\ raised = ""
    /\ error_count = 1 /\ warning_count = 0
    /\ AllEvaluated
    /\ out[Len(out)] = [t |-> "ran_with", n |-> 1, d |-> 0, q |-> <<>>]

\* C13 as stated: the check pass first, then the evaluator, and after
\* evaluation a trailing line with the counts of the check pass, for every
\* program.
C13_AlwaysTrailingLine ==
    /\ CheckPassFirst
    /\ pc = "done" =>
        /\ AllEvaluated
        /\ RanWith = {Len(out)}
        /\ out[Len(out)].n = error_count
        /\ out[Len(out)].d = warning_count

(***************************************************************************)
(* C14: the default return                                                 *)
(***************************************************************************)

\* The first command of the program, when it is a function definition with
\* a default return.
FirstDefault == prog.children[1].children[1]
HasFirstDefault ==
    /\ prog.children # <<>>
    /\ FirstDefault.data = "function_def"
    /\ Len(FirstDefault.children) = 4

\* The scope the check pass made for the body of that function: the child
\* of the checking scope with the arguments seeded, the counterpart of the
\* scope Function.run evaluates the body and the default return in.
BodyScope == Len(CheckScope.scopes) + 1

\* The diagnostics of either sink on a node of the default return.
OnDefaultReturn ==
    {d \in UNION {{sinks[k][i] : i \in 1..Len(sinks[k])} : k \in 1..2} :
        IsPrefix(<<1, 1, 4>>, d.node)}

\* The default return checked in the body scope, f stored and x seeded.
InBodyScope == type_check_expr(Heap, BodyScope, FirstDefault.children[4], <<1, 1, 4>>)

\* C14: the checker types a function's default return where the evaluator
\* evaluates it, with the parameters and the function's own name defined:
\* a default return that has the declared return type there, and draws no
\* diagnostic there, draws no diagnostic in the check pass.
C14_DefaultReturnTypedInBodyScope ==
    (Checked_ /\ HasFirstDefault) =>
        /\ scopes[BodyScope].parent = Len(CheckScope.scopes)
        /\ scopes[BodyScope].parent_function # 0
        /\ (/\ InBodyScope.ty = Prim(FirstDefault.children[2].value)
            /\ InBodyScope.h.sinks = sinks)
               => OnDefaultReturn = {}

\* C14, a default return that is the parameter: the check pass reports the
\* parameter undefined, and the evaluator returns the argument.
C14_ParameterUndefined ==
    /\ prog = Start(<<FunctionDefDefault("f", <<<<"x", "int">>>>, "int", <<>>,
                                         Name("x")),
                      PrintF1>>)
    /\ pc = "done" /\ raised = ""
    /\ InBodyScope.ty = Prim("int") /\ InBodyScope.h.sinks = sinks
    /\ \E d \in OnDefaultReturn : d.rule = "undefined"
    /\ \E i \in 1..Len(out) : out[i] = IntV(1)
====
